---- MODULE Spec2Model ----
(***************************************************************************)
(* Transactional outbox relay between the SSO service (producer side) and  *)
(* the user service (consumer side).                                       *)
(*                                                                         *)
(*   SaveUser  -> messages row (same transaction)                          *)
(*   Sender.processNewEvent: GetNewEvent -> Send -> MarkEventAsDone        *)
(*   Getter.processEvent:    ReadMessage -> ProcessEvent -> CommitMessages *)
(*                                                                         *)
(* Text values (emails, payloads) are sequences of one-character strings,  *)
(* so that encoding and decoding are computed rather than assumed.         *)
(***************************************************************************)
EXTENDS Integers, Sequences, FiniteSets, TLC

\* ------------------------------------------------------------------------
\* Bounds of the model
\* ------------------------------------------------------------------------

\* number of SaveUser calls made by the foreground service
MaxSaveCalls == 2

\* number of injected infrastructure failures (I/O errors, broker errors,
\* process restarts); every failure is transient: it consumes this budget
MaxFaults == 1

\* ------------------------------------------------------------------------
\* Text: characters, emails
\* ------------------------------------------------------------------------

Quote == "\""

Backslash == "\\"

Emails == { <<"a">>, <<"b">> }

\* ------------------------------------------------------------------------
\* encoding/json: Marshal of eventPayload{Id int64 `json:"id"`,
\* Email string `json:"email"`}
\* ------------------------------------------------------------------------

DigitChar(d) == <<"0", "1", "2", "3", "4", "5", "6", "7", "8", "9">>[d + 1]

RECURSIVE Itoa(_)
Itoa(n) == IF n < 10 THEN <<DigitChar(n)>>
           ELSE Itoa(n \div 10) \o <<DigitChar(n % 10)>>

RECURSIVE EscapeString(_)
EscapeString(s) ==
    IF s = <<>> THEN <<>>
    ELSE (IF Head(s) \in {Quote, Backslash} THEN <<Backslash, Head(s)>>
          ELSE <<Head(s)>>) \o EscapeString(Tail(s))

JsonString(s) == <<Quote>> \o EscapeString(s) \o <<Quote>>

\* json.Marshal(eventPayload{Id: id, Email: email}) = {"id":<id>,"email":"<email>"}
MarshalEventPayload(id, email) ==
    <<"{">> \o JsonString(<<"i", "d">>) \o <<":">> \o Itoa(id) \o <<",">>
       \o JsonString(<<"e", "m", "a", "i", "l">>) \o <<":">> \o JsonString(email)
       \o <<"}">>

\* ------------------------------------------------------------------------
\* encoding/json: Unmarshal into UserPayload{UserID int64 `json:"id"`,
\* Email string `json:"email"`}.  A recursive-descent reader of one JSON
\* object whose values are integers or strings; absent fields keep the zero
\* value, unknown fields are skipped, a value of the wrong type is an error.
\* ------------------------------------------------------------------------

Digits == {"0", "1", "2", "3", "4", "5", "6", "7", "8", "9"}

DigitVal(c) == CHOOSE d \in 0..9 : DigitChar(d) = c

At(s, i) == IF i >= 1 /\ i <= Len(s) THEN s[i] ELSE "EOF"

RECURSIVE SkipWs(_, _)
SkipWs(s, i) == IF At(s, i) = " " THEN SkipWs(s, i + 1) ELSE i

\* reads the characters of a string literal after its opening quote
RECURSIVE ScanString(_, _, _)
ScanString(s, i, acc) ==
    IF At(s, i) = "EOF" THEN [ok |-> FALSE, pos |-> i, val |-> <<>>]
    ELSE IF At(s, i) = Quote THEN [ok |-> TRUE, pos |-> i + 1, val |-> acc]
    ELSE IF At(s, i) = Backslash
         THEN IF At(s, i + 1) \in {Quote, Backslash}
              THEN ScanString(s, i + 2, Append(acc, At(s, i + 1)))
              ELSE [ok |-> FALSE, pos |-> i, val |-> <<>>]
    ELSE ScanString(s, i + 1, Append(acc, At(s, i)))

ParseString(s, i) ==
    IF At(s, i) = Quote THEN ScanString(s, i + 1, <<>>)
    ELSE [ok |-> FALSE, pos |-> i, val |-> <<>>]

RECURSIVE ScanDigits(_, _, _)
ScanDigits(s, i, acc) ==
    IF At(s, i) \in Digits THEN ScanDigits(s, i + 1, acc * 10 + DigitVal(At(s, i)))
    ELSE [ok |-> TRUE, pos |-> i, val |-> acc]

\* a JSON integer: digits with no leading zero
ParseNumber(s, i) ==
    IF At(s, i) \notin Digits THEN [ok |-> FALSE, pos |-> i, val |-> 0]
    ELSE IF At(s, i) = "0" /\ At(s, i + 1) \in Digits
         THEN [ok |-> FALSE, pos |-> i, val |-> 0]
    ELSE ScanDigits(s, i, 0)

\* one value: kind "string" or "number"
ParseValue(s, i) ==
    IF At(s, i) = Quote
    THEN LET r == ParseString(s, i)
         IN  [ok |-> r.ok, pos |-> r.pos, kind |-> "string", str |-> r.val, num |-> 0]
    ELSE LET r == ParseNumber(s, i)
         IN  [ok |-> r.ok, pos |-> r.pos, kind |-> "number", str |-> <<>>, num |-> r.val]

BadPayload == [err |-> TRUE, UserID |-> 0, Email |-> <<>>]

\* stores one member into the struct; a type mismatch is an error
SetField(acc, key, v) ==
    IF key = <<"i", "d">>
    THEN IF v.kind = "number" THEN [acc EXCEPT !.UserID = v.num] ELSE BadPayload
    ELSE IF key = <<"e", "m", "a", "i", "l">>
    THEN IF v.kind = "string" THEN [acc EXCEPT !.Email = v.str] ELSE BadPayload
    ELSE acc

\* members of the object, i at the first character of a key
RECURSIVE ParseMembers(_, _, _)
ParseMembers(s, i, acc) ==
    LET k == ParseString(s, SkipWs(s, i)) IN
    IF ~k.ok THEN BadPayload
    ELSE LET c == SkipWs(s, k.pos) IN
    IF At(s, c) # ":" THEN BadPayload
    ELSE LET v == ParseValue(s, SkipWs(s, c + 1)) IN
    IF ~v.ok THEN BadPayload
    ELSE LET acc2 == SetField(acc, k.val, v)
             n    == SkipWs(s, v.pos) IN
    IF acc2.err THEN BadPayload
    ELSE IF At(s, n) = "," THEN ParseMembers(s, n + 1, acc2)
    ELSE IF At(s, n) = "}" /\ SkipWs(s, n + 1) = Len(s) + 1 THEN acc2
    ELSE BadPayload

\* parseUserPayload: json.Unmarshal(payload, &UserPayload{})
parseUserPayload(payload) ==
    LET zero == [err |-> FALSE, UserID |-> 0, Email |-> <<>>]
        i    == SkipWs(payload, 1) IN
    IF At(payload, i) # "{" THEN BadPayload
    ELSE LET j == SkipWs(payload, i + 1) IN
         IF At(payload, j) = "}"
         THEN IF SkipWs(payload, j + 1) = Len(payload) + 1 THEN zero ELSE BadPayload
         ELSE ParseMembers(payload, j, zero)

\* ------------------------------------------------------------------------
\* State
\* ------------------------------------------------------------------------

VARIABLES
    users,        \* SSO table users: sequence of [id, email] (email UNIQUE)
    messages,     \* SSO outbox table messages: sequence of rows
    nCalls,       \* number of SaveUser calls made so far
    lastSave,     \* what the latest SaveUser call was given and returned
    saved,        \* the [id, email] of every SaveUser call that returned nil, in call order
    senderPc,     \* position of Sender.processNewEvent: "idle", "send", "mark"
    senderEvent,  \* the event fetched by the tick in flight (ID 0: none)
    lastTick,     \* what the latest Sender tick did: [id, send, mark]
    topic,        \* the broker's topic (one partition): sequence of [key, value]
    committed,    \* the consumer group's committed position: messages 1..committed are acknowledged
    readerPos,    \* the running kafka.Reader's cursor: messages 1..readerPos were fetched
    getterPc,     \* position of Getter.processEvent: "idle", "process", "commit"
    getterMsg,    \* offset of the message in flight (0: none)
    cycle,        \* what the latest Getter cycle did (see NoCycle)
    outcome,      \* per offset, what ProcessEvent last returned for it: "none", "err", "nil"
    projections,  \* user service table users: sequence of [id, name, surname, avatar]
    faults,       \* number of injected failures so far
    rejected,     \* ids of the events for which the broker refuses every Send
    ssoProc,      \* the SSO process: main, its context, the Sender's loop (see SsoStarted)
    usProc        \* the user service process: main, its context, the Getter's loop (see UsStarted)

vars == <<users, messages, nCalls, lastSave, saved, senderPc, senderEvent, lastTick,
          topic, committed, readerPos, getterPc, getterMsg, cycle, outcome,
          projections, faults, rejected, ssoProc, usProc>>

ssoVars == <<users, messages, nCalls, lastSave, saved>>

senderVars == <<senderPc, senderEvent, lastTick>>

getterVars == <<getterPc, getterMsg, cycle, outcome>>

NoEvent == [ID |-> 0, Type |-> "", Payload |-> <<>>]

\* off: offset ReadMessage returned; read, proc, commit: what ReadMessage,
\* ProcessEvent and CommitMessages returned ("-": not called); poff, coff: the
\* offsets given to ProcessEvent and CommitMessages; found: the name of the
\* projection ProcessEvent met for the payload's id ("-": none); prev: the
\* offset whose processing failed in the cycle before (0: none)
NoCycle == [off |-> 0, read |-> "-", proc |-> "-", commit |-> "-",
            poff |-> 0, coff |-> 0, found |-> "-", prev |-> 0]

NoTick == [id |-> 0, send |-> "-", mark |-> "-"]

procVars == <<ssoProc, usProc>>

\* the SSO process once main has started its goroutines and waits in its
\* select loop.
\* main: "run" (select loop), "wait" (cancel called, in wg.Wait), "close"
\* (wg.Wait returned), "exit" (producer closed), "exited" (os.Exit called);
\* ctx: the Sender's context is cancelled; tick: ticker.C holds a tick;
\* loop: the Sender's goroutine is at the select of StartProcessingEvents
\* ("select"), inside processNewEvent ("tick"), or has returned and called
\* wg.Done ("done"); producer: "open" or "closed"; signalled: a termination
\* signal was received; midTick: shutdown began while a tick was in flight;
\* calls: the number of processNewEvent calls entered and not yet returned
SsoStarted ==
    [main |-> "run", ctx |-> FALSE, tick |-> FALSE, loop |-> "select",
     producer |-> "open", signalled |-> FALSE, midTick |-> FALSE, calls |-> 0]

\* the user service process once main has started its goroutines and waits
\* in its select loop.
\* main: "run", "wait", "close", "stop" (consumer closed, application.Stop
\* next), "exited"; ctx: the Getter's context is cancelled; loop: the
\* Getter's goroutine is at the select of GetEventStart ("select"), inside
\* processEvent ("cycle"), or has returned and called wg.Done ("done");
\* consumer: "open" or "closed"; signalled, midTick: as for the SSO process;
\* shape: GetEventStart is the loop with a default case ("loop") or the loop
\* driven by a ticker ("interval"); tick: ticker.C holds a tick; calls: the
\* number of cycles entered and not yet finished
UsStarted ==
    [main |-> "run", ctx |-> FALSE, loop |-> "select",
     consumer |-> "open", signalled |-> FALSE, midTick |-> FALSE,
     shape |-> "loop", tick |-> FALSE, calls |-> 0]

\* an injected failure is possible while the budget lasts
CanFail == faults < MaxFaults

\* empty databases, an idle Sender and an idle Getter
InitData ==
    /\ users = <<>>
    /\ messages = <<>>
    /\ nCalls = 0
    /\ lastSave = [email |-> <<>>, id |-> 0, err |-> "-", fail |-> "none"]
    /\ saved = <<>>
    /\ senderPc = "idle"
    /\ senderEvent = NoEvent
    /\ lastTick = NoTick
    /\ committed = 0
    /\ readerPos = 0
    /\ getterPc = "idle"
    /\ getterMsg = 0
    /\ cycle = NoCycle
    /\ projections = <<>>
    /\ faults = 0

\* the state of both services after construction, apart from what the
\* broker holds
InitServices ==
    /\ InitData
    /\ ssoProc = SsoStarted
    /\ usProc = UsStarted

\* an empty topic on a broker that refuses no event
Init ==
    /\ InitServices
    /\ topic = <<>>
    /\ outcome = <<>>
    /\ rejected = {}

\* ------------------------------------------------------------------------
\* SSO storage: SaveUser and SaveEvent inside one transaction
\* ------------------------------------------------------------------------

\* the points at which the database can fail inside SaveUser
SaveFailures == {"begin", "prepare", "exec", "lastInsertId", "saveEvent", "commit"}

\* a table whose status column defaults to 'sent'
InsertMessageAsSent(tbl, eventType, payload, ts) ==
    Append(tbl, [id |-> Len(tbl) + 1, event_type |-> eventType, payload |-> payload,
                 status |-> "sent", created_at |-> ts])

\* INSERT INTO messages (event_type, payload): id AUTOINCREMENT,
\* status DEFAULT 'new', created_at DEFAULT CURRENT_TIMESTAMP
InsertMessage(tbl, eventType, payload, ts) ==
    Append(tbl, [id |-> Len(tbl) + 1, event_type |-> eventType, payload |-> payload,
                 status |-> "new", created_at |-> ts])

\* an insert that is refused while the outbox holds an unsent row
SaveEventWhenDrained(tx, eventType, payload, ts, fail) ==
    IF fail = "saveEvent" \/ \E i \in DOMAIN tx.messages : tx.messages[i].status = "new"
    THEN [tx |-> tx, err |-> "err"]
    ELSE [tx |-> [tx EXCEPT !.messages = InsertMessage(tx.messages, eventType, payload, ts)],
          err |-> "nil"]

\* SaveEvent(ctx, tx, eventType, payload): the insert runs on the caller's tx
SaveEvent(tx, eventType, payload, ts, fail) ==
    IF fail = "saveEvent" THEN [tx |-> tx, err |-> "err"]
    ELSE [tx |-> [tx EXCEPT !.messages = InsertMessage(tx.messages, eventType, payload, ts)],
          err |-> "nil"]

\* a rollback that does not cover the user insert
RollbackKeepsUser(db, tx) == [db EXCEPT !.users = tx.users]

\* tx.Rollback(): the database keeps what it held at Begin
Rollback(db, tx) == db

\* a commit that does not cover the event insert
CommitUsersOnly(db, tx) == [db EXCEPT !.users = tx.users]

\* tx.Commit(): the database takes what the transaction wrote
Commit(db, tx) == tx

\* SaveUser(ctx, email, passHash) on database db at time ts; fail names the
\* step at which the database fails ("none": it does not).
\* Result: [db, id, err].
SaveUser(db, email, ts, fail) ==
    IF fail = "begin" THEN [db |-> db, id |-> 0, err |-> "err"]
    ELSE LET tx0 == db IN
    IF fail = "prepare" THEN [db |-> Rollback(db, tx0), id |-> 0, err |-> "err"]
    ELSE IF \E i \in DOMAIN tx0.users : tx0.users[i].email = email
    THEN [db |-> Rollback(db, tx0), id |-> 0, err |-> "ErrUserExists"]
    ELSE IF fail = "exec" THEN [db |-> Rollback(db, tx0), id |-> 0, err |-> "err"]
    ELSE LET resID == Len(tx0.users) + 1
             tx1   == [tx0 EXCEPT !.users = Append(@, [id |-> resID, email |-> email])] IN
    IF fail = "lastInsertId" THEN [db |-> Rollback(db, tx1), id |-> 0, err |-> "err"]
    ELSE LET ev == SaveEvent(tx1, "UserCreated", MarshalEventPayload(resID, email), ts, fail) IN
    IF ev.err # "nil" THEN [db |-> Rollback(db, ev.tx), id |-> 0, err |-> "err"]
    ELSE IF fail = "commit" THEN [db |-> Rollback(db, ev.tx), id |-> resID, err |-> "err"]
    ELSE [db |-> Commit(db, ev.tx), id |-> resID, err |-> "nil"]

\* CURRENT_TIMESTAMP has a resolution of one second: an insert happens in
\* the second of the latest row or in a later one
LastStamp(tbl) == IF tbl = <<>> THEN 0 ELSE tbl[Len(tbl)].created_at

Timestamps(tbl) == { LastStamp(tbl), LastStamp(tbl) + 1 }

\* a RegisterNewUser request with one of the given emails reaches
\* storage.SaveUser
SaveUserCall(emails) ==
    /\ nCalls < MaxSaveCalls
    /\ \E email \in emails, now \in Timestamps(messages) :
       \E fail \in {"none"} \cup (IF CanFail THEN SaveFailures ELSE {}) :
          LET r == SaveUser([users |-> users, messages |-> messages], email, now, fail) IN
          /\ users' = r.db.users
          /\ messages' = r.db.messages
          /\ lastSave' = [email |-> email, id |-> r.id, err |-> r.err, fail |-> fail]
          /\ saved' = IF r.err = "nil" THEN Append(saved, [id |-> r.id, email |-> email])
                      ELSE saved
          /\ faults' = IF fail = "none" THEN faults ELSE faults + 1
    /\ nCalls' = nCalls + 1
    /\ UNCHANGED <<procVars, rejected, senderVars, topic, committed, readerPos, getterVars,
                   projections>>

\* a RegisterNewUser request reaches storage.SaveUser
DoSaveUser == SaveUserCall(Emails)

\* ------------------------------------------------------------------------
\* SSO storage: the outbox queries used by the Sender
\* ------------------------------------------------------------------------

NewRows(tbl) == { i \in DOMAIN tbl : tbl[i].status = "new" }

\* a query that only ever looks at the first row of the table
GetFirstEventRows(tbl) == { i \in NewRows(tbl) : i = 1 }

\* SELECT id, event_type, payload FROM messages WHERE status = 'new'
\* ORDER BY created_at LIMIT 1: the rows the query may return.  Rows with
\* the same created_at are in no defined order, so each of them may come first.
GetNewEventRows(tbl) ==
    { i \in NewRows(tbl) : \A j \in NewRows(tbl) : tbl[i].created_at <= tbl[j].created_at }

EventOfRow(row) == [ID |-> row.id, Type |-> row.event_type, Payload |-> row.payload]

\* an update with no WHERE clause
MarkEveryEventAsDone(tbl, eventID) ==
    [ i \in DOMAIN tbl |-> [tbl[i] EXCEPT !.status = "sent"] ]

\* UPDATE messages SET status = 'sent' WHERE id = eventID
MarkEventAsDone(tbl, eventID) ==
    [ i \in DOMAIN tbl |->
        IF tbl[i].id = eventID THEN [tbl[i] EXCEPT !.status = "sent"] ELSE tbl[i] ]

\* ------------------------------------------------------------------------
\* Broker, producer side: Producer.Send = writer.WriteMessages(key, value),
\* which returns after the broker acknowledged the message
\* ------------------------------------------------------------------------

\* a producer that writes every message twice
SendTwice(tp, key, value) ==
    Append(Append(tp, [key |-> key, value |-> value]), [key |-> key, value |-> value])

Send(tp, key, value) == Append(tp, [key |-> key, value |-> value])

\* ------------------------------------------------------------------------
\* Sender (outbox drainer): one tick of StartProcessingEvents runs
\* processNewEvent: GetNewEvent, then Send, then MarkEventAsDone
\* ------------------------------------------------------------------------

\* processNewEvent calls GetNewEvent
SenderFetchCall ==
    /\ senderPc = "idle"
    /\ \/ \* the query fails
          /\ CanFail
          /\ faults' = faults + 1
          /\ lastTick' = [id |-> 0, send |-> "-", mark |-> "-"]
          /\ UNCHANGED <<senderPc, senderEvent>>
       \/ \* sql.ErrNoRows: ErrNoNewEvents
          /\ NewRows(messages) = {}
          /\ lastTick' = [id |-> 0, send |-> "-", mark |-> "-"]
          /\ UNCHANGED <<senderPc, senderEvent, faults>>
       \/ \E i \in GetNewEventRows(messages) :
             LET event == EventOfRow(messages[i]) IN
             /\ lastTick' = [id |-> event.ID, send |-> "-", mark |-> "-"]
             /\ IF event.ID = 0
                THEN UNCHANGED <<senderPc, senderEvent>>
                ELSE senderPc' = "send" /\ senderEvent' = event
             /\ UNCHANGED faults
    /\ UNCHANGED <<rejected, ssoVars, topic, committed, readerPos, getterVars, projections>>

\* ticker.C fires and processNewEvent calls GetNewEvent
SenderFetch == SenderFetchCall /\ UNCHANGED procVars

\* processNewEvent calls Send
SenderSendCall ==
    /\ senderPc = "send"
    /\ \/ /\ senderEvent.ID \notin rejected
          /\ topic' = Send(topic, senderEvent.Type, senderEvent.Payload)
          /\ outcome' = Append(outcome, "none")
          /\ senderPc' = "mark"
          /\ lastTick' = [lastTick EXCEPT !.send = "nil"]
          /\ UNCHANGED <<senderEvent, faults>>
       \/ \* the broker is unreachable: the tick ends
          /\ CanFail
          /\ faults' = faults + 1
          /\ senderPc' = "idle"
          /\ senderEvent' = NoEvent
          /\ lastTick' = [lastTick EXCEPT !.send = "err"]
          /\ UNCHANGED <<topic, outcome>>
       \/ \* the broker refuses this event, as on every attempt: the tick ends
          /\ senderEvent.ID \in rejected
          /\ senderPc' = "idle"
          /\ senderEvent' = NoEvent
          /\ lastTick' = [lastTick EXCEPT !.send = "err"]
          /\ UNCHANGED <<topic, outcome, faults>>
    /\ UNCHANGED <<rejected, ssoVars, committed, readerPos, getterPc, getterMsg, cycle,
                   projections>>

\* EventProducer.Send(ctx, []byte(event.Type), []byte(event.Payload))
SenderSend == SenderSendCall /\ UNCHANGED procVars

\* processNewEvent calls MarkEventAsDone
SenderMarkCall ==
    /\ senderPc = "mark"
    /\ \/ /\ messages' = MarkEventAsDone(messages, senderEvent.ID)
          /\ lastTick' = [lastTick EXCEPT !.mark = "nil"]
          /\ UNCHANGED faults
       \/ \* the update fails: the tick ends, the row is untouched
          /\ CanFail
          /\ faults' = faults + 1
          /\ lastTick' = [lastTick EXCEPT !.mark = "err"]
          /\ UNCHANGED messages
    /\ senderPc' = "idle"
    /\ senderEvent' = NoEvent
    /\ UNCHANGED <<rejected, users, nCalls, lastSave, saved, topic, committed, readerPos,
                   getterVars, projections>>

\* EventProcessor.MarkEventAsDone(ctx, event.ID)
SenderMark == SenderMarkCall /\ UNCHANGED procVars

\* ------------------------------------------------------------------------
\* Broker, consumer side: Consumer wraps a kafka.Reader built with a GroupID.
\* Reader.FetchMessage hands out the next message and moves the reader's
\* cursor; Reader.CommitMessages stores the group's position at the broker;
\* Reader.ReadMessage is FetchMessage followed, for a reader of a consumer
\* group, by CommitMessages of the message it fetched.
\* ------------------------------------------------------------------------

\* Reader.CommitMessages(msg): the group's position becomes the message's
CommitMessages(pos, off) == off

\* Consumer.ReadMessage = c.reader.ReadMessage(ctx).
\* fail: "none", "fetch" (nothing is fetched) or "commit" (the message was
\* fetched, storing the group's position failed).  Result: [off, readerPos, committed, err]
ReadMessage(rpos, cpos, fail) ==
    IF fail = "fetch"
    THEN [off |-> 0, readerPos |-> rpos, committed |-> cpos, err |-> "err"]
    ELSE LET m == rpos + 1 IN
         IF fail = "commit"
         THEN [off |-> 0, readerPos |-> m, committed |-> cpos, err |-> "err"]
         ELSE [off |-> m, readerPos |-> m, committed |-> CommitMessages(cpos, m),
               err |-> "nil"]

\* kafka.NewReader with a GroupID: a new reader starts at the group's
\* committed position
NewReaderPos(cpos) == cpos

\* ------------------------------------------------------------------------
\* User service storage (table users, primary key id) and the processor
\* ------------------------------------------------------------------------

HasUser(store, id) == \E i \in DOMAIN store : store[i].id = id

\* an insert that replaces the row of a taken id
CreateUserUpsert(store, user, fail) ==
    IF fail THEN [store |-> store, err |-> "err"]
    ELSE IF HasUser(store, user.id)
    THEN [store |-> [ i \in DOMAIN store |-> IF store[i].id = user.id THEN user ELSE store[i] ],
          err |-> "nil"]
    ELSE [store |-> Append(store, user), err |-> "nil"]

\* an insert with no conflict clause on a table that does not keep ids unique
CreateUserNoConflict(store, user, fail) ==
    IF fail THEN [store |-> store, err |-> "err"]
    ELSE [store |-> Append(store, user), err |-> "nil"]

\* INSERT INTO users ... ON CONFLICT (id) DO NOTHING RETURNING ...:
\* no row comes back when the id is taken, reported as ErrUserAlreadyExists
CreateUser(store, user, fail) ==
    IF fail THEN [store |-> store, err |-> "err"]
    ELSE IF HasUser(store, user.id) THEN [store |-> store, err |-> "ErrUserAlreadyExists"]
    ELSE [store |-> Append(store, user), err |-> "nil"]

\* UPDATE users SET name, surname, avatar WHERE id = ? RETURNING ...
StorageUpdateUser(store, user) ==
    IF ~HasUser(store, user.id) THEN [store |-> store, err |-> "ErrUserNotFound"]
    ELSE [store |-> [ i \in DOMAIN store |-> IF store[i].id = user.id THEN user ELSE store[i] ],
          err |-> "nil"]

\* a projection built with the zero values of the fields
NewProjectionZero(id) == [id |-> id, name |-> "", surname |-> "", avatar |-> <<>>]

\* the placeholder projection built by ProcessEvent
NewProjection(id) == [id |-> id, name |-> "no name", surname |-> "no surname", avatar |-> <<>>]

\* a processor that reports the conflict like any other error
CreateUserResultStrict(err) == IF err # "nil" THEN "create user" ELSE "nil"

\* how ProcessEvent reports what CreateUser returned
CreateUserResult(err) ==
    IF err = "ErrUserAlreadyExists" THEN "nil"
    ELSE IF err # "nil" THEN "create user"
    ELSE "nil"

\* UserProcessor.ProcessEvent(ctx, payload); fail: the database fails.
\* Result: [store, err]
ProcessEvent(store, payload, fail) ==
    LET userPayload == parseUserPayload(payload) IN
    IF userPayload.err THEN [store |-> store, err |-> "parse error"]
    ELSE LET r == CreateUser(store, NewProjection(userPayload.UserID), fail)
         IN  [store |-> r.store, err |-> CreateUserResult(r.err)]

\* the fields of an UpdateUser request; an avatar is empty or an image of a
\* width and a height.  One request passes validateUser, and one request
\* fails each of its three checks.
UpdateRequests ==
    { [name |-> "Ann", surname |-> "Lee", avatar |-> <<1, 1>>],
      [name |-> "",    surname |-> "Lee", avatar |-> <<1, 1>>],
      [name |-> "Ann", surname |-> "",    avatar |-> <<1, 1>>],
      [name |-> "Ann", surname |-> "Lee", avatar |-> <<2, 1>>] }

IsSquareOrEmpty(avatar) ==
    IF Len(avatar) = 0 THEN TRUE
    ELSE Len(avatar) = 2 /\ avatar[1] = avatar[2]

validateUser(user) ==
    IF user.name = "" THEN "ErrInvalidUserName"
    ELSE IF user.surname = "" THEN "ErrInvalidUserSurname"
    ELSE IF ~IsSquareOrEmpty(user.avatar) THEN "ErrInvalidUserAvatar"
    ELSE "nil"

\* UserService.UpdateUser: validateUser, then the storage update
UpdateUser ==
    /\ \E id \in 1..MaxSaveCalls, req \in UpdateRequests :
          LET user == [id |-> id, name |-> req.name, surname |-> req.surname,
                       avatar |-> req.avatar] IN
          IF validateUser(user) # "nil" THEN UNCHANGED projections
          ELSE projections' = StorageUpdateUser(projections, user).store
    /\ UNCHANGED <<procVars, rejected, ssoVars, senderVars, topic, committed, readerPos, getterVars, faults>>

\* ------------------------------------------------------------------------
\* Getter (inbound relay): one cycle of GetEventStart runs
\* ReadMessage, then ProcessEvent, then CommitMessages
\* ------------------------------------------------------------------------

\* the offset whose processing failed in the cycle just ended (0: none)
FailedBefore == IF cycle.proc = "err" THEN cycle.off ELSE 0

\* processEvent calls ReadMessage, which waits for a message
GetterReadCall ==
    /\ getterPc = "idle"
    /\ \E fail \in (IF readerPos < Len(topic) THEN {"none"} ELSE {})
                   \cup (IF CanFail THEN {"fetch"} ELSE {})
                   \cup (IF CanFail /\ readerPos < Len(topic) THEN {"commit"} ELSE {}) :
          LET r == ReadMessage(readerPos, committed, fail) IN
          /\ readerPos' = r.readerPos
          /\ committed' = r.committed
          /\ faults' = IF fail = "none" THEN faults ELSE faults + 1
          /\ cycle' = [NoCycle EXCEPT !.off = r.off, !.read = r.err, !.prev = FailedBefore]
          /\ IF r.err = "nil"
             THEN getterPc' = "process" /\ getterMsg' = r.off
             ELSE UNCHANGED <<getterPc, getterMsg>>
    /\ UNCHANGED <<rejected, ssoVars, senderVars, topic, outcome, projections>>

\* the cycle starts: EventConsumer.ReadMessage(ctx)
GetterRead == GetterReadCall /\ UNCHANGED procVars

\* the name of the projection stored for the id the payload decodes to
FoundName(store, payload) ==
    LET id == parseUserPayload(payload).UserID IN
    IF HasUser(store, id)
    THEN store[CHOOSE i \in DOMAIN store : store[i].id = id].name
    ELSE "-"

\* where processEvent goes once ProcessEvent returned: on to the commit, or
\* out of the cycle
AfterProcessAlwaysCommits(err) == "commit"

AfterProcess(err) == IF err # "nil" THEN "idle" ELSE "commit"

\* processEvent calls ProcessEvent
GetterProcessCall ==
    /\ getterPc = "process"
    /\ \E fail \in {FALSE} \cup (IF CanFail THEN {TRUE} ELSE {}) :
          LET r == ProcessEvent(projections, topic[getterMsg].value, fail) IN
          /\ projections' = r.store
          /\ faults' = IF fail THEN faults + 1 ELSE faults
          /\ cycle' = [cycle EXCEPT !.proc = IF r.err = "nil" THEN "nil" ELSE "err",
                                    !.poff = getterMsg,
                                    !.found = FoundName(projections, topic[getterMsg].value)]
          /\ outcome' = [outcome EXCEPT ![getterMsg] = IF r.err = "nil" THEN "nil" ELSE "err"]
          /\ getterPc' = AfterProcess(r.err)
          /\ IF AfterProcess(r.err) = "commit"
             THEN UNCHANGED getterMsg
             ELSE getterMsg' = 0
    /\ UNCHANGED <<rejected, ssoVars, senderVars, topic, committed, readerPos>>

\* EventProcessor.ProcessEvent(ctx, message.Value)
GetterProcess == GetterProcessCall /\ UNCHANGED procVars

\* processEvent calls CommitMessages
GetterCommitCall ==
    /\ getterPc = "commit"
    /\ \/ /\ committed' = CommitMessages(committed, getterMsg)
          /\ cycle' = [cycle EXCEPT !.commit = "nil", !.coff = getterMsg]
          /\ UNCHANGED faults
       \/ /\ CanFail
          /\ faults' = faults + 1
          /\ cycle' = [cycle EXCEPT !.commit = "err", !.coff = getterMsg]
          /\ UNCHANGED committed
    /\ getterPc' = "idle"
    /\ getterMsg' = 0
    /\ UNCHANGED <<rejected, ssoVars, senderVars, topic, readerPos, outcome, projections>>

\* EventConsumer.CommitMessages(ctx, message)
GetterCommit == GetterCommitCall /\ UNCHANGED procVars

\* the user service process stops and is started again: main builds a new
\* Consumer under the same group id, and GetEventStart starts over
GetterRestart ==
    /\ CanFail
    /\ faults' = faults + 1
    /\ readerPos' = NewReaderPos(committed)
    /\ getterPc' = "idle"
    /\ getterMsg' = 0
    /\ cycle' = NoCycle
    /\ UNCHANGED <<procVars, rejected, ssoVars, senderVars, topic, committed, outcome, projections>>

\* ------------------------------------------------------------------------
\* Specifications
\* ------------------------------------------------------------------------

Next ==
    \/ DoSaveUser
    \/ SenderFetch
    \/ SenderSend
    \/ SenderMark
    \/ GetterRead
    \/ GetterProcess
    \/ GetterCommit
    \/ GetterRestart
    \/ UpdateUser

Spec == Init /\ [][Next]_vars

\* ------------------------------------------------------------------------
\* Properties
\* ------------------------------------------------------------------------

\* a step that is a SaveUser call
SaveUserStep == nCalls' = nCalls + 1

\* the payload decodes to this id and this email
Carries(payload, id, email) ==
    parseUserPayload(payload) = [err |-> FALSE, UserID |-> id, Email |-> email]

\* C1 (state part): the outbox holds one row per SaveUser call that returned
\* nil, in call order: row i has type "UserCreated" and a payload that
\* carries the id and the email of the user inserted by the i-th such call.
C1_OneRowPerSavedUser ==
    /\ Len(messages) = Len(saved)
    /\ \A i \in DOMAIN messages :
          /\ messages[i].event_type = "UserCreated"
          /\ messages[i].status \in {"new", "sent"}
          /\ Carries(messages[i].payload, saved[i].id, saved[i].email)
          /\ \E j \in DOMAIN users : users[j] = saved[i]

\* C1 (step part): a SaveUser call that returns nil adds exactly one row, with
\* status new; a call that returns an error adds none.
C1_SaveUserAddsRow ==
    SaveUserStep =>
        IF lastSave'.err = "nil"
        THEN /\ Len(messages') = Len(messages) + 1
             /\ SubSeq(messages', 1, Len(messages)) = messages
             /\ messages'[Len(messages')].status = "new"
             /\ Carries(messages'[Len(messages')].payload, lastSave'.id, lastSave'.email)
        ELSE messages' = messages

\* C1: after any sequence of SaveUser calls the outbox holds exactly one row
\* per call that returned success (type "UserCreated", status new when
\* created, payload carrying the id and email of that call's user), and the
\* calls that returned an error contribute no row.
C1_OutboxRowPerSuccess == []C1_OneRowPerSavedUser /\ [][C1_SaveUserAddsRow]_vars

\* a failed call was followed by a successful one, whose row is still new
C1_Witness ==
    /\ nCalls = 2
    /\ Len(saved) = 1
    /\ lastSave.err = "nil"
    /\ Len(messages) = 1
    /\ messages[1].status = "new"

\* C2 (state part): every user has exactly one UserCreated event carrying its
\* id and email, and every event belongs to a user.
C2_UserIffEvent ==
    LET decoded == { [i |-> i, p |-> parseUserPayload(messages[i].payload)] :
                        i \in DOMAIN messages }
        IsOf(e, u) == ~e.p.err /\ e.p.UserID = u.id /\ e.p.Email = u.email
    IN  /\ \A j \in DOMAIN users :
              Cardinality({ e \in decoded :
                              /\ messages[e.i].event_type = "UserCreated"
                              /\ IsOf(e, users[j]) }) = 1
        /\ \A e \in decoded : \E j \in DOMAIN users : IsOf(e, users[j])

\* C2 (step part): a SaveUser call that returns an error persists neither
\* row; a duplicate email is reported as ErrUserExists unless the database
\* failed before the insert ran.
C2_FailedSaveKeepsNothing ==
    SaveUserStep =>
        /\ lastSave'.err # "nil" => users' = users /\ messages' = messages
        /\ (\E j \in DOMAIN users : users[j].email = lastSave'.email)
              => /\ lastSave'.err # "nil"
                 /\ lastSave'.fail \in {"none", "exec", "lastInsertId", "saveEvent", "commit"}
                       => lastSave'.err = "ErrUserExists"

\* C2: SaveUser is atomic over the user row and the event row: when the user
\* insert, SaveEvent or the commit fails neither row is persisted, and no
\* reachable state has a user without its event or an event without its user.
C2_SaveUserAtomic == []C2_UserIffEvent /\ [][C2_FailedSaveKeepsNothing]_vars

\* SaveEvent failed after the user insert had run in the transaction
C2_Witness ==
    /\ lastSave.fail = "saveEvent"
    /\ lastSave.err = "err"
    /\ users = <<>>
    /\ messages = <<>>

\* C3: in every relay cycle CommitMessages is called for a message only
\* after ProcessEvent returned nil for that same message in that cycle; it is
\* not called after a read error or after ProcessEvent returned an error.
C3_CommitOnlyAfterProcessed ==
    /\ cycle.commit # "-" =>
          /\ cycle.read = "nil"
          /\ cycle.proc = "nil"
          /\ cycle.off # 0
          /\ cycle.poff = cycle.off
          /\ cycle.coff = cycle.off
    /\ getterPc = "commit" =>
          /\ cycle.read = "nil"
          /\ cycle.proc = "nil"
          /\ cycle.poff = getterMsg
          /\ cycle.off = getterMsg
    /\ cycle.read = "err" => cycle.proc = "-" /\ cycle.commit = "-"
    /\ cycle.proc = "err" => cycle.commit = "-"

\* a cycle read, processed and committed its message
C3_Witness ==
    /\ cycle.read = "nil"
    /\ cycle.proc = "nil"
    /\ cycle.commit = "nil"
    /\ cycle.coff = cycle.off

\* C4: the group's committed position is advanced only by the Getter's
\* CommitMessages call: a message that ReadMessage returned and that was not
\* committed by that call is still uncommitted for the group.
C4_ReadLeavesUncommitted ==
    /\ getterPc = "process" => committed < getterMsg
    /\ cycle.read = "nil" /\ cycle.commit # "nil" => committed < cycle.off

\* C5: when ProcessEvent returns an error for a message, the message stays
\* uncommitted and the next read of the same running Getter returns that
\* same message.
C5_FailedMessageReadAgain ==
    /\ cycle.proc = "err" => committed < cycle.poff
    /\ cycle.read = "nil" /\ cycle.prev # 0 => cycle.off = cycle.prev

\* C6: when ProcessEvent returned an error for a message that was not applied
\* successfully afterwards, the group's committed position has not passed
\* that message, so that a restarted Getter starts at or before it.
C6_CommittedNeverPassesFailed ==
    \A o \in DOMAIN outcome :
        outcome[o] = "err" => committed < o /\ NewReaderPos(committed) < o

\* nothing is left to relay: no new event, no tick or cycle in flight, every
\* message of the topic fetched and committed
Quiescent ==
    /\ NewRows(messages) = {}
    /\ senderPc = "idle"
    /\ getterPc = "idle"
    /\ readerPos = Len(topic)
    /\ committed = Len(topic)

\* C7: every user committed by SaveUser has a projection with its id in the
\* user service once the relay has nothing left to do.
C7_RelayedWhenQuiescent ==
    Quiescent => \A j \in DOMAIN users : HasUser(projections, users[j].id)

\* a step in which the Getter called ProcessEvent
ProcessStep == cycle.proc = "-" /\ cycle'.proc # "-"

\* whenever the Getter applies a payload (the database not failing), the call
\* returns nil, and applying the same payload to the resulting store once
\* more returns nil and leaves that store as it is
C8_ApplyTwiceStep ==
    ProcessStep /\ faults' = faults =>
        LET payload == topic[cycle'.poff].value
            once    == ProcessEvent(projections, payload, FALSE)
            twice   == ProcessEvent(projections', payload, FALSE)
        IN  /\ ~parseUserPayload(payload).err
            /\ cycle'.proc = "nil"
            /\ once.err = "nil"
            /\ once.store = projections'
            /\ twice.err = "nil"
            /\ twice.store = projections'
            /\ HasUser(projections', parseUserPayload(payload).UserID)

\* C8: ProcessEvent is idempotent: for every well-formed payload and every
\* projection store the Getter meets, applying the payload twice leaves the
\* store as applying it once does, and both calls return nil.
C8_ProcessEventIdempotent == [][C8_ApplyTwiceStep]_vars

\* the Getter applied two messages of the same payload, both with success
C8_Witness ==
    \E o1, o2 \in DOMAIN topic :
        /\ o1 < o2
        /\ topic[o1].value = topic[o2].value
        /\ outcome[o1] = "nil"
        /\ outcome[o2] = "nil"
        /\ Len(projections) = 1

\* C9: when a projection for the payload's id exists, ProcessEvent leaves the
\* projections (name, surname and avatar, also as written by UpdateUser)
\* unchanged and returns nil; ErrUserAlreadyExists never reaches the Getter
\* as an error (an error is a database failure).
C9_ExistingProjectionStep ==
    ProcessStep /\ cycle'.found # "-" =>
        /\ projections' = projections
        /\ cycle'.proc = "err" => faults' = faults + 1

C9_ExistingProjectionUntouched == [][C9_ExistingProjectionStep]_vars

\* ProcessEvent returned nil for the id of a projection that UpdateUser had
\* renamed, and the projection keeps the name
C9_Witness ==
    /\ cycle.proc = "nil"
    /\ cycle.found = "Ann"
    /\ \E i \in DOMAIN projections :
          projections[i] = [id |-> 1, name |-> "Ann", surname |-> "Lee", avatar |-> <<1, 1>>]

\* the Sender's ticker keeps firing and a call that was started returns:
\* every step of the Sender that can be taken is eventually taken
Fairness ==
    /\ WF_vars(SenderFetch)
    /\ WF_vars(SenderSend)
    /\ WF_vars(SenderMark)

FairSpec == Spec /\ Fairness

\* the rows of the projection store with this id
ProjectionsOf(id) == { i \in DOMAIN projections : projections[i].id = id }

\* the messages of the topic that carry the payload of this event
PublishedOf(id) ==
    { o \in DOMAIN topic : \E i \in DOMAIN messages :
          messages[i].id = id /\ topic[o].value = messages[i].payload }

StatusOf(tbl, id) == tbl[CHOOSE i \in DOMAIN tbl : tbl[i].id = id].status

\* a tick whose Send returned nil and whose MarkEventAsDone returned an error
MarkFailed(id) == lastTick.id = id /\ lastTick.send = "nil" /\ lastTick.mark = "err"

\* the step in which MarkEventAsDone fails leaves the outbox as it is, the
\* event still new
C10_MarkFailureStep ==
    lastTick.mark = "-" /\ lastTick'.mark = "err" =>
        /\ lastTick'.send = "nil"
        /\ messages' = messages
        /\ StatusOf(messages', lastTick'.id) = "new"

\* no id has two projections, and the id of every message applied with
\* success has one
C10_OneProjectionPerId ==
    /\ \A i, j \in DOMAIN projections : projections[i].id = projections[j].id => i = j
    /\ \A o \in DOMAIN topic :
          outcome[o] = "nil" =>
              Cardinality(ProjectionsOf(parseUserPayload(topic[o].value).UserID)) = 1

\* C10: if Send succeeds for an event and MarkEventAsDone then fails, the
\* event stays new and a later tick publishes it again; whatever duplicates
\* the Getter applies, there is exactly one projection for the event's user id.
C10_RepublishedOneProjection ==
    /\ [][C10_MarkFailureStep]_vars
    /\ []C10_OneProjectionPerId
    /\ \A id \in 1..MaxSaveCalls : MarkFailed(id) ~> (Cardinality(PublishedOf(id)) >= 2)

\* the event was published twice and then marked sent, the Getter applied
\* both messages, and one projection exists
C10_Witness ==
    /\ Len(topic) = 2
    /\ topic[1] = topic[2]
    /\ outcome = <<"nil", "nil">>
    /\ Len(messages) = 1
    /\ messages[1].status = "sent"
    /\ Cardinality(ProjectionsOf(1)) = 1

\* ------------------------------------------------------------------------
\* Sender: failed publish, publish before mark, draining order
\* ------------------------------------------------------------------------

\* a step in which a Sender tick fetched an event and goes on to publish it
FetchedStep == senderPc = "idle" /\ senderPc' = "send"

\* the step in which Send returns an error ends the tick: MarkEventAsDone is
\* not called, the outbox is as it was and the event is still new
C11_SendFailureStep ==
    lastTick.send = "-" /\ lastTick'.send = "err" =>
        /\ lastTick'.mark = "-"
        /\ senderPc' = "idle"
        /\ messages' = messages
        /\ StatusOf(messages', lastTick'.id) = "new"

\* after a tick whose Send failed, the event stays new and unmarked until
\* the next tick
C11_FailedSendStaysNew ==
    lastTick.send = "err" =>
        /\ lastTick.mark = "-"
        /\ StatusOf(messages, lastTick.id) = "new"

\* the tick after one whose Send failed fetches the event of that tick
C11_RetryStep ==
    FetchedStep /\ lastTick.send = "err" => senderEvent'.ID = lastTick.id

\* C11: if Send returns an error during a tick, MarkEventAsDone is not
\* called in that tick, the event's status remains new, and the next tick
\* fetches that same event and calls Send for it again.
C11_FailedSendRetriedNextTick ==
    /\ [][C11_SendFailureStep]_vars
    /\ []C11_FailedSendStaysNew
    /\ [][C11_RetryStep]_vars

\* every event with status sent is in the topic
C12_SentIsInTopic ==
    \A i \in DOMAIN messages :
        messages[i].status = "sent" => PublishedOf(messages[i].id) # {}

\* a status changes to sent only in the MarkEventAsDone step of a tick whose
\* Send returned nil for that event, the message being in the topic already
C12_MarkStep ==
    \A i \in DOMAIN messages :
        messages[i].status = "new" /\ messages'[i].status = "sent" =>
            /\ senderPc = "mark"
            /\ senderEvent.ID = messages[i].id
            /\ lastTick.id = messages[i].id
            /\ lastTick.send = "nil"
            /\ \E o \in DOMAIN topic :
                  topic[o] = [key |-> messages[i].event_type, value |-> messages[i].payload]
            /\ topic' = topic

\* C12: in every reachable state an event with status sent has had a Send
\* call for it return nil before its status changed; no event becomes sent
\* without an acknowledged publish of that event.
C12_SentOnlyAfterPublish == []C12_SentIsInTopic /\ [][C12_MarkStep]_vars

\* one event is sent and a second one, created in the same second, is
\* still new and was never published
C12_Witness ==
    /\ Len(messages) = 2
    /\ messages[1].created_at = messages[2].created_at
    /\ messages[1].status = "sent"
    /\ messages[2].status = "new"
    /\ PublishedOf(1) # {}
    /\ PublishedOf(2) = {}

\* the events created before this one (ids are given in insertion order)
\* are all marked sent
EarlierAllSent(tbl, id) ==
    \A i \in DOMAIN tbl : tbl[i].id < id => tbl[i].status = "sent"

\* the event a tick has fetched is the earliest-created new event
C13_FetchedIsOldestNew ==
    senderPc # "idle" => EarlierAllSent(messages, senderEvent.ID)

\* a step in which Send returns nil publishes an event all of whose
\* predecessors are marked sent
C13_PublishStep ==
    Len(topic') = Len(topic) + 1 => EarlierAllSent(messages, senderEvent.ID)

\* C13: FIFO draining: for events inserted in order 1..N, GetNewEvent returns
\* the earliest-created new event, so event N is never published before
\* event N-1 has been marked sent, also when several events were created
\* within the same created_at value.
C13_FifoDraining == []C13_FetchedIsOldestNew /\ [][C13_PublishStep]_vars

\* ------------------------------------------------------------------------
\* The SSO service alone, on a broker that may refuse one event for ever
\* ------------------------------------------------------------------------

\* the broker refuses no event, or refuses every Send of event 1
RejectedSets == { {}, {1} }

DrainerInit ==
    /\ InitServices
    /\ topic = <<>>
    /\ outcome = <<>>
    /\ rejected \in RejectedSets

\* registrations and the Sender's ticks
DrainerNext ==
    \/ DoSaveUser
    \/ SenderFetch
    \/ SenderSend
    \/ SenderMark

\* the Sender's ticker keeps firing and a call that was started returns
DrainerSpec == DrainerInit /\ [][DrainerNext]_vars /\ Fairness

\* the outbox holds the event of this id, marked sent
IsSent(id) == \E i \in DOMAIN messages : messages[i].id = id /\ messages[i].status = "sent"

\* the outbox holds the event of this id
HasEvent(id) == \E i \in DOMAIN messages : messages[i].id = id

\* C14: tick isolation: an event whose Send fails on every attempt does not
\* stall the Sender for the other events: every other outbox event is
\* eventually published and marked sent.
C14_OtherEventsEventuallySent ==
    \A id \in 1..MaxSaveCalls :
        (HasEvent(id) /\ id \notin rejected) ~> IsSent(id)

\* ------------------------------------------------------------------------
\* Process lifecycle: the two main functions, the Sender's and the Getter's
\* loops, cancellation and the completion barrier.  What a tick or a cycle
\* does to the databases and the topic is left out here: processNewEvent and
\* processEvent are entered and return.
\* ------------------------------------------------------------------------

dataVars == <<users, messages, nCalls, lastSave, saved, senderPc, senderEvent, lastTick,
              topic, committed, readerPos, getterPc, getterMsg, cycle, outcome,
              projections, faults, rejected>>

\* a wait group that does not wait
WgWaitNoBarrier(loop) == TRUE

\* wg.Wait() returns once the goroutine has called wg.Done()
WgWaitReturns(loop) == loop = "done"

\* a Close deferred after cancel() and wg.Wait(), so that it runs before them
DeferredCloseRunsFirst(main) == main \in {"wait", "close"}

\* the deferred Close of the broker connection was registered before the
\* deferred cancel() and wg.Wait(): it runs when they have returned
DeferredCloseRuns(main) == main = "close"

\* a call started with the go statement: the loop is back at its select
\* while the call runs
ProcessNewEventSpawned(loop) == loop

\* s.processNewEvent(ctx), an ordinary call: the loop is inside it until it
\* returns
ProcessNewEventCalled(loop) == "tick"

\* the ticker fires: ticker.C, a channel of capacity one, takes the tick
\* (a tick that finds the channel full is dropped)
TickerFires ==
    /\ ssoProc.main # "exited"
    /\ ssoProc.loop # "done"
    /\ ~ssoProc.tick
    /\ ssoProc' = [ssoProc EXCEPT !.tick = TRUE]
    /\ UNCHANGED <<usProc, dataVars>>

\* the select of StartProcessingEvents: of the cases that are ready, one is
\* taken, whichever
SenderSelect ==
    /\ ssoProc.main # "exited"
    /\ ssoProc.loop = "select"
    /\ \/ \* case <-ctx.Done(): return ctx.Err(); the goroutine calls wg.Done
          /\ ssoProc.ctx
          /\ ssoProc' = [ssoProc EXCEPT !.loop = "done"]
       \/ \* case <-ticker.C: processNewEvent is entered
          /\ ssoProc.tick
          /\ ssoProc' = [ssoProc EXCEPT !.tick = FALSE, !.calls = @ + 1,
                                        !.loop = ProcessNewEventCalled(@)]
    /\ UNCHANGED <<usProc, dataVars>>

\* processNewEvent returns
SenderTickReturns ==
    /\ ssoProc.main # "exited"
    /\ ssoProc.loop = "tick"
    /\ ssoProc' = [ssoProc EXCEPT !.loop = "select", !.calls = @ - 1]
    /\ UNCHANGED <<usProc, dataVars>>

\* main (sso) returns from its select loop and its last deferred function
\* calls cancel() and then wg.Wait()
SsoShutdown(bySignal) ==
    [ssoProc EXCEPT !.main = "wait", !.ctx = TRUE,
                    !.signalled = @ \/ bySignal,
                    !.midTick = (ssoProc.loop = "tick")]

\* case stopSignal := <-stop: SIGINT or SIGTERM arrives; main returns
SsoSignal ==
    /\ ssoProc.main = "run"
    /\ ssoProc' = SsoShutdown(TRUE)
    /\ UNCHANGED <<usProc, dataVars>>

\* case err := <-appErrChan with an error: main returns
SsoAppFails ==
    /\ ssoProc.main = "run"
    /\ ssoProc' = SsoShutdown(FALSE)
    /\ UNCHANGED <<usProc, dataVars>>

\* wg.Wait() returns
SsoWaitReturns ==
    /\ ssoProc.main = "wait"
    /\ WgWaitReturns(ssoProc.loop)
    /\ ssoProc' = [ssoProc EXCEPT !.main = "close"]
    /\ UNCHANGED <<usProc, dataVars>>

\* the next deferred function: kafkaProducer.Close()
SsoCloseProducer ==
    /\ DeferredCloseRuns(ssoProc.main)
    /\ ssoProc' = [ssoProc EXCEPT !.main = "exit", !.producer = "closed"]
    /\ UNCHANGED <<usProc, dataVars>>

\* the first deferred function: os.Exit(exitCode)
SsoExit ==
    /\ ssoProc.main = "exit"
    /\ ssoProc' = [ssoProc EXCEPT !.main = "exited"]
    /\ UNCHANGED <<usProc, dataVars>>

\* a cycle started with the go statement: the loop is back at its select
\* while the cycle runs
ProcessEventSpawned(loop) == loop

\* g.processEvent(ctx), an ordinary call (or the body of the case, in the
\* same goroutine): the loop is inside the cycle until it has finished
ProcessEventCalled(loop) == "cycle"

\* the select of GetEventStart: ctx.Done() when it is ready, default
\* (processEvent) otherwise
GetterSelect ==
    /\ usProc.main # "exited"
    /\ usProc.shape = "loop"
    /\ usProc.loop = "select"
    /\ usProc' = IF usProc.ctx
                 THEN [usProc EXCEPT !.loop = "done"]
                 ELSE [usProc EXCEPT !.calls = @ + 1, !.loop = ProcessEventCalled(@)]
    /\ UNCHANGED <<ssoProc, dataVars>>

\* processEvent returns: a message was handled, or ReadMessage(ctx)
\* returned an error (as it does once ctx is cancelled)
GetterCycleReturns ==
    /\ usProc.main # "exited"
    /\ usProc.loop = "cycle"
    /\ usProc' = [usProc EXCEPT !.loop = "select", !.calls = @ - 1]
    /\ UNCHANGED <<ssoProc, dataVars>>

\* main (userservice), case stopSignal := <-stop: the signal is logged and
\* the for loop goes on to its next select
UsSignal ==
    /\ usProc.main = "run"
    /\ usProc' = [usProc EXCEPT !.signalled = TRUE]
    /\ UNCHANGED <<ssoProc, dataVars>>

\* main (userservice), case err := <-appErrChan with an error: main returns
\* and its last deferred function calls cancel() and then wg.Wait()
UsAppFails ==
    /\ usProc.main = "run"
    /\ usProc' = [usProc EXCEPT !.main = "wait", !.ctx = TRUE,
                                !.midTick = (usProc.loop = "cycle")]
    /\ UNCHANGED <<ssoProc, dataVars>>

\* wg.Wait() returns
UsWaitReturns ==
    /\ usProc.main = "wait"
    /\ WgWaitReturns(usProc.loop)
    /\ usProc' = [usProc EXCEPT !.main = "close"]
    /\ UNCHANGED <<ssoProc, dataVars>>

\* the next deferred function: kafkaConsumer.Close()
UsCloseConsumer ==
    /\ DeferredCloseRuns(usProc.main)
    /\ usProc' = [usProc EXCEPT !.main = "stop", !.consumer = "closed"]
    /\ UNCHANGED <<ssoProc, dataVars>>

\* the remaining deferred functions: application.Stop(), os.Exit(exitCode)
UsExit ==
    /\ usProc.main = "stop"
    /\ usProc' = [usProc EXCEPT !.main = "exited"]
    /\ UNCHANGED <<ssoProc, dataVars>>

ShutdownNext ==
    \/ TickerFires
    \/ SenderSelect
    \/ SenderTickReturns
    \/ SsoSignal
    \/ SsoAppFails
    \/ SsoWaitReturns
    \/ SsoCloseProducer
    \/ SsoExit
    \/ GetterSelect
    \/ GetterCycleReturns
    \/ UsSignal
    \/ UsAppFails
    \/ UsWaitReturns
    \/ UsCloseConsumer
    \/ UsExit

\* goroutines that can run do run, and a call that was entered returns; a
\* cycle of the Getter is only known to return once its context is cancelled;
\* a select that finds ctx.Done() ready again and again takes that case at
\* some time (the choice among ready cases is random)
ShutdownFairness ==
    /\ WF_vars(SenderSelect)
    /\ SF_vars(SenderSelect /\ ssoProc'.loop = "done")
    /\ WF_vars(SenderTickReturns)
    /\ WF_vars(SsoWaitReturns)
    /\ WF_vars(SsoCloseProducer)
    /\ WF_vars(SsoExit)
    /\ WF_vars(GetterSelect)
    /\ WF_vars(GetterCycleReturns /\ usProc.ctx)
    /\ WF_vars(UsWaitReturns)
    /\ WF_vars(UsCloseConsumer)
    /\ WF_vars(UsExit)

ShutdownSpec == Init /\ [][ShutdownNext]_vars /\ ShutdownFairness

\* a step in which the Sender enters processNewEvent
EntersTick == ssoProc.loop = "select" /\ ssoProc'.loop = "tick"

\* C15: once the Sender's context has been cancelled, StartProcessingEvents
\* starts no new tick: processNewEvent is never entered after cancellation,
\* also when a tick is pending in ticker.C at the moment of cancellation.
C15_NoTickAfterCancel == [][EntersTick => ~ssoProc.ctx]_vars

C18_SignalCancels ==
    /\ ssoProc.signalled => ssoProc.ctx
    /\ usProc.signalled => usProc.ctx

\* C18: when a service receives SIGINT or SIGTERM it signals cancellation
\* to its background task, waits for the task's completion signal, and then
\* the process terminates; this holds for the SSO service and for the user
\* service.
C18_SignalShutsDown ==
    /\ []C18_SignalCancels
    /\ [](ssoProc.signalled /\ ssoProc.main = "exited" => ssoProc.loop = "done")
    /\ [](usProc.signalled /\ usProc.main = "exited" => usProc.loop = "done")
    /\ ssoProc.signalled ~> (ssoProc.main = "exited")
    /\ usProc.signalled ~> (usProc.main = "exited")

\* ------------------------------------------------------------------------
\* Getter and ProcessEvent on payloads the SSO service did not write:
\* objects that lack a field, and bytes that do not decode
\* ------------------------------------------------------------------------

\* the most messages the topic holds at the start
MaxForeign == 2

IdMember(id) == JsonString(<<"i", "d">>) \o <<":">> \o Itoa(id)

EmailMember(email) == JsonString(<<"e", "m", "a", "i", "l">>) \o <<":">> \o JsonString(email)

\* {"email":"a"}
PayloadWithoutId == <<"{">> \o EmailMember(<<"a">>) \o <<"}">>

\* {"id":2}
PayloadWithoutEmail == <<"{">> \o IdMember(2) \o <<"}">>

\* {}
PayloadEmptyObject == <<"{", "}">>

\* JSON objects that lack the id, the email, or both
MissingFieldPayloads == { PayloadWithoutId, PayloadWithoutEmail, PayloadEmptyObject }

\* bytes json.Unmarshal returns an error for: an object cut short, a string
\* where the int64 belongs, and text that is no JSON value
MalformedPayloads ==
    { <<"{">> \o IdMember(1),
      <<"{">> \o JsonString(<<"i", "d">>) \o <<":">> \o JsonString(<<"a">>) \o <<"}">>,
      <<"x">> }

RelayPayloads ==
    { MarshalEventPayload(1, <<"a">>) } \cup MissingFieldPayloads \cup MalformedPayloads

RECURSIVE SeqsUpTo(_, _)
SeqsUpTo(S, n) ==
    IF n = 0 THEN { <<>> }
    ELSE LET shorter == SeqsUpTo(S, n - 1)
         IN  shorter \cup { Append(s, x) : s \in { t \in shorter : Len(t) = n - 1 }, x \in S }

\* a topic of one to MaxForeign messages written by any producer
TopicWritten ==
    \E values \in SeqsUpTo(RelayPayloads, MaxForeign) \ { <<>> } :
        /\ topic = [ o \in DOMAIN values |-> [key |-> "UserCreated", value |-> values[o]] ]
        /\ outcome = [ o \in DOMAIN values |-> "none" ]

\* the services as started, with such a topic
RelayInit ==
    /\ InitServices
    /\ rejected = {}
    /\ TopicWritten

RelayNext ==
    \/ GetterRead
    \/ GetterProcess
    \/ GetterCommit
    \/ GetterRestart

RelaySpec == RelayInit /\ [][RelayNext]_vars

\* a call of ProcessEvent with a payload that lacks a field returns an error
\* and leaves the projections as they are
C19_MissingFieldStep ==
    ProcessStep /\ topic[cycle'.poff].value \in MissingFieldPayloads =>
        /\ cycle'.proc = "err"
        /\ projections' = projections

\* no projection has the zero value of an id that was not given
C19_NoZeroProjection == ~HasUser(projections, 0)

\* C19: ProcessEvent returns an error and creates no projection for a
\* payload that lacks a required field (the id or the email); it never
\* creates a projection whose identifier is the zero default of a missing id.
C19_MissingFieldRejected == [][C19_MissingFieldStep]_vars /\ []C19_NoZeroProjection

\* a call of ProcessEvent with a payload that does not decode returns an
\* error and leaves the projections as they are; the cycle ends there, with
\* the message not committed for the group, and the Getter is back at the
\* top of its loop
C20_MalformedStep ==
    ProcessStep /\ topic[cycle'.poff].value \in MalformedPayloads =>
        /\ cycle'.proc = "err"
        /\ projections' = projections
        /\ cycle'.commit = "-"
        /\ getterPc' = "idle"
        /\ committed' < cycle'.poff

\* C20: for a malformed (undecodable) payload, ProcessEvent returns an error
\* without creating or changing any projection, the Relay does not commit
\* the message, and the Relay keeps running and handles further cycles.
C20_MalformedNotCommitted == [][C20_MalformedStep]_vars

\* ------------------------------------------------------------------------
\* The Sender's loop with its ticks: StartProcessingEvents selects, calls
\* processNewEvent, and the call's three steps run until it returns
\* ------------------------------------------------------------------------

\* a loop that gives up after a tick that met an error
ProcessNewEventReturnedStrict(err) == IF err THEN "done" ELSE "select"

\* processNewEvent has no result: whatever happened inside, the for loop of
\* StartProcessingEvents goes on to its next select
ProcessNewEventReturned(err) == "select"

\* the call returns; err: it met an error
ReturnFromTick(err) ==
    [ssoProc EXCEPT !.calls = @ - 1,
                    !.loop = IF @ = "tick" THEN ProcessNewEventReturned(err) ELSE @]

\* the SSO service handles a registration while main is in its select loop
LoopSaveUser ==
    /\ ssoProc.main = "run"
    /\ DoSaveUser

\* inside processNewEvent: GetNewEvent; the call returns at once on an error,
\* on ErrNoNewEvents and on an event of id 0
LoopFetch ==
    /\ ssoProc.main # "exited"
    /\ ssoProc.calls > 0
    /\ SenderFetchCall
    /\ ssoProc' = IF senderPc' = "idle" THEN ReturnFromTick(faults' # faults) ELSE ssoProc
    /\ UNCHANGED usProc

\* inside processNewEvent: Send; the call returns on an error
LoopSend ==
    /\ ssoProc.main # "exited"
    /\ ssoProc.calls > 0
    /\ SenderSendCall
    /\ ssoProc' = IF senderPc' = "idle" THEN ReturnFromTick(TRUE) ELSE ssoProc
    /\ UNCHANGED usProc

\* inside processNewEvent: MarkEventAsDone, after which the call returns
LoopMark ==
    /\ ssoProc.main # "exited"
    /\ ssoProc.calls > 0
    /\ SenderMarkCall
    /\ ssoProc' = ReturnFromTick(lastTick'.mark = "err")
    /\ UNCHANGED usProc

SenderLoopNext ==
    \/ LoopSaveUser
    \/ TickerFires
    \/ SenderSelect
    \/ LoopFetch
    \/ LoopSend
    \/ LoopMark
    \/ SsoSignal
    \/ SsoAppFails
    \/ SsoWaitReturns
    \/ SsoCloseProducer
    \/ SsoExit

SenderLoopSpec == DrainerInit /\ [][SenderLoopNext]_vars

\* a step in which a call inside processNewEvent returned an error
TickErrorStep ==
    /\ ssoProc.calls > 0
    /\ nCalls' = nCalls
    /\ \/ senderPc = "idle" /\ faults' # faults
       \/ senderPc = "send" /\ lastTick'.send = "err"
       \/ senderPc = "mark" /\ lastTick'.mark = "err"

\* the tick ends at the error, and the loop is at its select again
C21_TickEndsEarly ==
    TickErrorStep =>
        /\ senderPc' = "idle"
        /\ topic' = topic
        /\ messages' = messages
        /\ ssoProc'.calls = 0
        /\ ssoProc'.loop = "select"

\* StartProcessingEvents returns from the case of ctx.Done() only
C21_ReturnsOnCancelOnly ==
    ssoProc.loop # "done" /\ ssoProc'.loop = "done" =>
        ssoProc.ctx /\ ssoProc.loop = "select"

\* C21: no error inside a Sender tick (GetNewEvent, Send or MarkEventAsDone
\* failing) stops the Sender: the tick ends early and StartProcessingEvents
\* keeps running later ticks; it returns only when its context is cancelled.
C21_ErrorsDoNotStopSender == [][C21_TickEndsEarly /\ C21_ReturnsOnCancelOnly]_vars

\* after a tick whose Send failed, a later tick published and marked the
\* same event
C21_Witness ==
    /\ nCalls = 1
    /\ Len(users) = 1
    /\ faults = 1
    /\ ~ssoProc.ctx
    /\ Len(topic) = 1
    /\ IsSent(1)

\* a step in which StartProcessingEvents calls processNewEvent
C27_CallStarts == ssoProc'.calls > ssoProc.calls

\* a call starts with no other call in progress
C27_StartsAfterReturn ==
    C27_CallStarts =>
        /\ ssoProc.calls = 0
        /\ senderPc = "idle"
        /\ senderEvent = NoEvent

\* at no time are two calls of processNewEvent in progress
C27_OneCallAtMost == ssoProc.calls <= 1

\* C27: Sender ticks never overlap: a new processNewEvent call starts only
\* after the previous one has returned, also when a tick takes longer than
\* the tick interval.
C27_TicksNeverOverlap == []C27_OneCallAtMost /\ [][C27_StartsAfterReturn]_vars

\* the ticker fired again while a call is still between its Send and its
\* MarkEventAsDone
C27_Witness ==
    /\ ssoProc.calls = 1
    /\ ssoProc.tick
    /\ senderPc = "mark"

\* the positions of a tick follow one another as in
\* Idle -> FetchOldestNew -> {NoneFound -> Idle} | {Found -> Publish -> MarkSent -> Idle}
C30_TickOrder ==
    /\ senderPc = "idle" => senderPc' \in {"idle", "send"}
    /\ senderPc = "send" => senderPc' \in {"send", "mark", "idle"}
    /\ senderPc = "mark" => senderPc' \in {"mark", "idle"}
    /\ senderPc' = "send" /\ senderPc = "idle" => ssoProc.calls = 1 /\ senderEvent'.ID = lastTick'.id
    /\ senderPc' = "mark" /\ senderPc = "send" => lastTick'.send = "nil"

\* GetNewEvent reports ErrNoNewEvents: nothing is published, no row changes,
\* and the call returns
C30_NoneFound ==
    (ssoProc.calls = 1 /\ ssoProc'.calls = 0 /\ senderPc = "idle"
        /\ NewRows(messages) = {} /\ faults' = faults) =>
        /\ topic' = topic
        /\ messages' = messages
        /\ senderPc' = "idle"

\* the topic changes by the one Send of a tick: the first of the tick, with
\* the type and payload of the event the tick fetched
C30_OneSend ==
    topic' # topic =>
        /\ senderPc = "send"
        /\ lastTick.send = "-"
        /\ lastTick.id = senderEvent.ID
        /\ senderEvent.ID \in { messages[i].id : i \in NewRows(messages) }
        /\ topic' = Append(topic, [key |-> senderEvent.Type, value |-> senderEvent.Payload])
        /\ senderPc' = "mark"

\* a status changes by the MarkEventAsDone of a tick, for the id of the
\* event this tick published
C30_MarkPublished ==
    (nCalls' = nCalls /\ messages' # messages) =>
        /\ senderPc = "mark"
        /\ lastTick.send = "nil"
        /\ lastTick.id = senderEvent.ID
        /\ topic[Len(topic)] = [key |-> senderEvent.Type, value |-> senderEvent.Payload]
        /\ \A i \in DOMAIN messages :
              messages'[i] # messages[i] =>
                  /\ messages[i].id = senderEvent.ID
                  /\ messages'[i] = [messages[i] EXCEPT !.status = "sent"]

\* C30: a Sender tick follows Idle -> FetchOldestNew -> {NoneFound -> Idle} |
\* {Found -> Publish -> MarkSent -> Idle}: when GetNewEvent reports
\* ErrNoNewEvents the tick publishes nothing and changes no row; otherwise it
\* makes at most one Send call, and calls MarkEventAsDone only for the id of
\* the event it published in that tick.
C30_TickStateMachine ==
    [][C30_TickOrder /\ C30_NoneFound /\ C30_OneSend /\ C30_MarkPublished]_vars

\* one tick found nothing after another had published and marked an event
C30_Witness ==
    /\ Len(topic) = 1
    /\ IsSent(1)
    /\ Len(messages) = 1
    /\ lastTick = NoTick
    /\ ssoProc.calls = 0
    /\ faults = 0

\* ------------------------------------------------------------------------
\* Construction of the broker clients at startup: kafkaproducer.New in main
\* (sso) and kafkaconsumer.New in main (userservice)
\* ------------------------------------------------------------------------

\* cfg.Kafka.Brokers and cfg.Kafka.Topic as the configuration may give them
BrokerLists == { <<>>, <<"kafka:9092">> }

TopicNames == { "", "users" }

\* a constructor that does not look at the topic name
NewProducerAnyTopic(brokers, topicName, dialFails, createFails) ==
    IF Len(brokers) = 0
    THEN [producer |-> "nil", err |-> "no Kafka brokers provided", created |-> "-"]
    ELSE IF dialFails
    THEN [producer |-> "nil", err |-> "dial Kafka", created |-> "-"]
    ELSE [producer |-> "open", err |-> "nil",
          created |-> IF createFails THEN "err" ELSE "nil"]

\* kafkaproducer.New(log, brokers, topic, dialAdress); dialFails: kafka.Dial
\* returns an error; createFails: conn.CreateTopics returns an error.
\* Result: the Producer ("nil" or "open"), the error, and what CreateTopics
\* returned ("-": not called)
NewProducer(brokers, topicName, dialFails, createFails) ==
    IF Len(brokers) = 0
    THEN [producer |-> "nil", err |-> "no Kafka brokers provided", created |-> "-"]
    ELSE IF topicName = ""
    THEN [producer |-> "nil", err |-> "no Kafka topic provided", created |-> "-"]
    ELSE IF dialFails
    THEN [producer |-> "nil", err |-> "dial Kafka", created |-> "-"]
    ELSE [producer |-> "open", err |-> "nil",
          created |-> IF createFails THEN "err" ELSE "nil"]

\* a constructor that checks the topic name first
NewConsumerTopicFirst(brokers, topicName, dialFails) ==
    IF topicName = "" THEN [consumer |-> "nil", err |-> "ErrNoTopic"]
    ELSE IF Len(brokers) = 0 THEN [consumer |-> "nil", err |-> "ErrNoBrokers"]
    ELSE IF dialFails THEN [consumer |-> "nil", err |-> "dial kafka"]
    ELSE [consumer |-> "open", err |-> "nil"]

\* kafkaconsumer.New(log, brokers, topic, groupID, dialAddr)
NewConsumer(brokers, topicName, dialFails) ==
    IF Len(brokers) = 0 THEN [consumer |-> "nil", err |-> "ErrNoBrokers"]
    ELSE IF topicName = "" THEN [consumer |-> "nil", err |-> "ErrNoTopic"]
    ELSE IF dialFails THEN [consumer |-> "nil", err |-> "dial kafka"]
    ELSE [consumer |-> "open", err |-> "nil"]

\* the processes before main has built its broker client.
\* main: "new", then "run" or "exited"; brokers, topic: the configuration;
\* dialFails, createFails: what the broker will answer; topicExists: the
\* topic is there on the broker; producer, consumer: "none" (constructor not
\* called yet), "nil" or "open"; err: what the constructor returned
StartupInit ==
    /\ InitData
    /\ topic = <<>>
    /\ outcome = <<>>
    /\ rejected = {}
    /\ \E brokers \in BrokerLists, name \in TopicNames, dialFails \in BOOLEAN,
          createFails \in BOOLEAN, topicExists \in BOOLEAN :
          ssoProc = [main |-> "new", brokers |-> brokers, topic |-> name,
                     dialFails |-> dialFails, createFails |-> createFails,
                     topicExists |-> topicExists, producer |-> "none", err |-> "-"]
    /\ \E brokers \in BrokerLists, name \in TopicNames, dialFails \in BOOLEAN :
          usProc = [main |-> "new", brokers |-> brokers, topic |-> name,
                    dialFails |-> dialFails, consumer |-> "none", err |-> "-"]

\* main (sso): kafkaProducer, err := kafkaproducer.New(...); on an error the
\* process exits.  CreateTopics that returns nil has created the topic or
\* found it there.
SsoNewProducer ==
    /\ ssoProc.main = "new"
    /\ LET r == NewProducer(ssoProc.brokers, ssoProc.topic, ssoProc.dialFails,
                            ssoProc.createFails)
       IN  ssoProc' = [ssoProc EXCEPT
                          !.producer = r.producer,
                          !.err = r.err,
                          !.topicExists = @ \/ r.created = "nil",
                          !.main = IF r.err = "nil" THEN "run" ELSE "exited"]
    /\ UNCHANGED <<usProc, dataVars>>

\* setupKafkaConsumer: kafkaconsumer.New(...); on an error os.Exit(1)
UsNewConsumer ==
    /\ usProc.main = "new"
    /\ LET r == NewConsumer(usProc.brokers, usProc.topic, usProc.dialFails)
       IN  usProc' = [usProc EXCEPT
                         !.consumer = r.consumer,
                         !.err = r.err,
                         !.main = IF r.err = "nil" THEN "run" ELSE "exited"]
    /\ UNCHANGED <<ssoProc, dataVars>>

StartupNext ==
    \/ SsoNewProducer
    \/ UsNewConsumer

StartupSpec == StartupInit /\ [][StartupNext]_vars

\* C22: Producer construction fails with an error, and returns no Producer,
\* when the broker list is empty or the topic name is empty; a Producer on
\* which Send can be called exists only if both were supplied.
C22_ProducerNeedsBrokersAndTopic ==
    /\ (ssoProc.producer # "none" /\ (ssoProc.brokers = <<>> \/ ssoProc.topic = "")) =>
          /\ ssoProc.producer = "nil"
          /\ ssoProc.err # "nil"
          /\ ssoProc.main = "exited"
    /\ ssoProc.producer = "open" => ssoProc.brokers # <<>> /\ ssoProc.topic # ""

\* the constructor was called with no topic name and with brokers
C22_Witness ==
    /\ ssoProc.producer = "nil"
    /\ ssoProc.brokers # <<>>
    /\ ssoProc.topic = ""
    /\ ~ssoProc.dialFails

\* C23: a Producer returned by its constructor has ensured that the topic
\* exists: whenever kafkaproducer.New returns a Producer that accepts Send
\* calls, topic creation has succeeded or the topic already existed.
C23_ProducerEnsuredTopic == ssoProc.producer = "open" => ssoProc.topicExists

\* the constructor returns an error for an empty broker list and for an
\* empty topic, and no Consumer in either case
C24_ConsumerNeedsBrokersAndTopic ==
    /\ (usProc.consumer # "none" /\ (usProc.brokers = <<>> \/ usProc.topic = "")) =>
          /\ usProc.consumer = "nil"
          /\ usProc.err \in {"ErrNoBrokers", "ErrNoTopic"}
    /\ (usProc.consumer # "none" /\ usProc.brokers = <<>>) => usProc.err = "ErrNoBrokers"

\* C24 as stated: Consumer construction fails with ErrNoBrokers when the
\* broker list is empty and with ErrNoTopic when the topic is empty,
\* returning no Consumer in either case.
C24_ConsumerErrors ==
    /\ C24_ConsumerNeedsBrokersAndTopic
    /\ (usProc.consumer # "none" /\ usProc.topic = "") => usProc.err = "ErrNoTopic"

\* C24, amended: Consumer construction fails with ErrNoBrokers when the
\* broker list is empty, and with ErrNoTopic when the topic is empty and the
\* broker list is not, returning no Consumer in either case.
C24_ConsumerErrorsInOrder ==
    /\ C24_ConsumerNeedsBrokersAndTopic
    /\ (usProc.consumer # "none" /\ usProc.topic = "" /\ usProc.brokers # <<>>) =>
          usProc.err = "ErrNoTopic"

\* the constructor was called with brokers and no topic
C24_Witness ==
    /\ usProc.consumer = "nil"
    /\ usProc.err = "ErrNoTopic"
    /\ usProc.brokers # <<>>

\* ------------------------------------------------------------------------
\* The Getter's loop with its cycles, in its two shapes: the loop whose
\* default case calls processEvent, and the loop whose ticker case runs the
\* same three calls
\* ------------------------------------------------------------------------

GetterShapes == {"loop", "interval"}

GetterLoopInit ==
    /\ InitData
    /\ rejected = {}
    /\ TopicWritten
    /\ ssoProc = SsoStarted
    /\ \E shape \in GetterShapes : usProc = [UsStarted EXCEPT !.shape = shape]

\* time.NewTicker(handlePeriod) fires: ticker.C, of capacity one, takes the
\* tick
GetterTickerFires ==
    /\ usProc.shape = "interval"
    /\ usProc.loop # "done"
    /\ ~usProc.tick
    /\ usProc' = [usProc EXCEPT !.tick = TRUE]
    /\ UNCHANGED <<ssoProc, dataVars>>

\* the select of the ticker-driven GetEventStart: of the cases that are
\* ready, one is taken
GetterIntervalSelect ==
    /\ usProc.shape = "interval"
    /\ usProc.loop = "select"
    /\ \/ \* case <-ctx.Done(): ticker.Stop(); return
          /\ usProc.ctx
          /\ usProc' = [usProc EXCEPT !.loop = "done"]
       \/ \* case <-ticker.C: the cycle runs in this goroutine
          /\ usProc.tick
          /\ usProc' = [usProc EXCEPT !.tick = FALSE, !.calls = @ + 1,
                                      !.loop = ProcessEventCalled(@)]
    /\ UNCHANGED <<ssoProc, dataVars>>

\* the context given to GetEventStart is cancelled
GetterCancel ==
    /\ ~usProc.ctx
    /\ usProc' = [usProc EXCEPT !.ctx = TRUE]
    /\ UNCHANGED <<ssoProc, dataVars>>

\* the cycle is over: the loop goes on to its next select
ReturnFromCycle ==
    [usProc EXCEPT !.calls = @ - 1, !.loop = IF @ = "cycle" THEN "select" ELSE @]

\* inside a cycle: ReadMessage; the cycle ends on an error
CycleRead ==
    /\ usProc.calls > 0
    /\ GetterReadCall
    /\ usProc' = IF getterPc' = "idle" THEN ReturnFromCycle ELSE usProc
    /\ UNCHANGED ssoProc

\* inside a cycle: ProcessEvent; the cycle ends on an error
CycleProcess ==
    /\ usProc.calls > 0
    /\ GetterProcessCall
    /\ usProc' = IF getterPc' = "idle" THEN ReturnFromCycle ELSE usProc
    /\ UNCHANGED ssoProc

\* inside a cycle: CommitMessages, after which the cycle ends
CycleCommit ==
    /\ usProc.calls > 0
    /\ GetterCommitCall
    /\ usProc' = ReturnFromCycle
    /\ UNCHANGED ssoProc

GetterLoopNext ==
    \/ GetterSelect
    \/ GetterTickerFires
    \/ GetterIntervalSelect
    \/ GetterCancel
    \/ CycleRead
    \/ CycleProcess
    \/ CycleCommit

GetterLoopSpec == GetterLoopInit /\ [][GetterLoopNext]_vars

\* at no time are two cycles of one Getter in progress
C26_OneCycleAtMost == usProc.calls <= 1

\* a cycle starts with no other cycle in progress and no message in hand
C26_CycleStartsIdle ==
    usProc'.calls > usProc.calls =>
        /\ usProc.calls = 0
        /\ getterPc = "idle"
        /\ getterMsg = 0

\* a message is read only by a cycle that has no message yet, and while a
\* message is in hand the reader does not move
C26_ReadsWhenIdle ==
    /\ readerPos' # readerPos => getterPc = "idle" /\ getterMsg = 0
    /\ getterMsg # 0 /\ getterMsg' # 0 => getterMsg' = getterMsg

\* C26: a Relay instance has at most one message in flight: it never reads
\* or processes a second message before the processing and the
\* commit-or-skip of the previous message have finished, in both the
\* tight-loop and the fixed-interval scheduling shape.
C26_SingleMessageInFlight ==
    []C26_OneCycleAtMost /\ [][C26_CycleStartsIdle /\ C26_ReadsWhenIdle]_vars

\* in the tight loop a second cycle is under way with its own message
C26_Witness ==
    /\ usProc.shape = "loop"
    /\ usProc.calls = 1
    /\ getterMsg = 2
    /\ outcome[1] # "none"

\* the ticker fired again while a cycle still holds its message
C26_WitnessInterval ==
    /\ usProc.shape = "interval"
    /\ usProc.calls = 1
    /\ usProc.tick
    /\ getterMsg # 0

\* ------------------------------------------------------------------------
\* The registration of a@b.com, from SaveUser to the projection
\* ------------------------------------------------------------------------

ScenarioEmail == <<"a", "@", "b", ".", "c", "o", "m">>

\* {"id":1,"email":"a@b.com"}
ScenarioPayload ==
    <<"{", Quote, "i", "d", Quote, ":", "1", ",",
      Quote, "e", "m", "a", "i", "l", Quote, ":",
      Quote, "a", "@", "b", ".", "c", "o", "m", Quote, "}">>

\* RegisterNewUser is called with a@b.com
ScenarioSaveUser == SaveUserCall({ScenarioEmail})

ScenarioNext ==
    \/ ScenarioSaveUser
    \/ SenderFetch
    \/ SenderSend
    \/ SenderMark
    \/ GetterRead
    \/ GetterProcess
    \/ GetterCommit
    \/ GetterRestart

ScenarioSpec == Init /\ [][ScenarioNext]_vars

\* SaveUser commits user 1: the outbox holds one row, of type "UserCreated",
\* with the payload of the user, and new
C25_AfterSaveUser ==
    (SaveUserStep /\ lastSave'.err = "nil" /\ lastSave'.id = 1) =>
        /\ users' = <<[id |-> 1, email |-> ScenarioEmail]>>
        /\ Len(messages') = 1
        /\ messages'[1].event_type = "UserCreated"
        /\ messages'[1].payload = ScenarioPayload
        /\ messages'[1].status = "new"

\* the first tick, with nothing failing, ends: the row is sent and the topic
\* holds one message, keyed by the event type, its value the payload
C25_AfterTick ==
    (senderPc = "mark" /\ lastTick'.mark = "nil" /\ faults' = 0) =>
        /\ Len(messages') = 1
        /\ messages'[1].status = "sent"
        /\ messages'[1].payload = ScenarioPayload
        /\ topic' = <<[key |-> "UserCreated", value |-> ScenarioPayload]>>

\* the first cycle, with nothing failing, ends: the projection of user 1
\* exists and the offset of the message is committed
C25_AfterCycle ==
    (getterPc = "commit" /\ cycle'.commit = "nil" /\ faults' = 0) =>
        /\ cycle'.coff = 1
        /\ committed' = 1
        /\ projections' = <<NewProjection(1)>>

\* C25: end-to-end scenario: after SaveUser commits user {id:1,
\* email:"a@b.com"} there is one outbox row with type "UserCreated", that
\* payload and status new; after one successful Sender tick the row is sent
\* and the topic holds one message whose key is the event type and whose
\* value is the unchanged payload; after one successful Getter cycle a
\* projection with identifier 1 exists and that message's offset is
\* committed.
C25_EndToEndScenario == [][C25_AfterSaveUser /\ C25_AfterTick /\ C25_AfterCycle]_vars

\* the scenario has run to its end with nothing failing
C25_Witness ==
    /\ saved = <<[id |-> 1, email |-> ScenarioEmail]>>
    /\ messages[1].status = "sent"
    /\ topic = <<[key |-> "UserCreated", value |-> ScenarioPayload]>>
    /\ cycle.commit = "nil"
    /\ committed = 1
    /\ projections = <<NewProjection(1)>>
    /\ faults = 0

\* a successful ProcessEvent for an id that has no projection appends the
\* placeholder projection of that id and touches nothing else
C28_CreateStep ==
    LET id == parseUserPayload(topic[cycle'.poff].value).UserID IN
    (ProcessStep /\ cycle'.proc = "nil" /\ ~HasUser(projections, id)) =>
        /\ projections' = Append(projections,
                                 [id |-> id, name |-> "no name",
                                  surname |-> "no surname", avatar |-> <<>>])
        /\ Cardinality({ i \in DOMAIN projections' : projections'[i].id = id }) = 1
        /\ \A i \in DOMAIN projections : projections'[i] = projections[i]

\* C28: when no projection exists for the payload's identifier, a successful
\* ProcessEvent creates exactly one projection with that identifier and the
\* placeholder values name "no name", surname "no surname" and an empty
\* avatar, and changes no other projection.
C28_PlaceholderProjectionCreated == [][C28_CreateStep]_vars

\* the projection of user 2 was created next to a projection of user 1 that
\* UpdateUser had written to
C28_Witness ==
    /\ Len(projections) = 2
    /\ projections[1].id = 1
    /\ projections[1].name = "Ann"
    /\ projections[2] = [id |-> 2, name |-> "no name", surname |-> "no surname",
                         avatar |-> <<>>]
    /\ cycle.proc = "nil"
    /\ cycle.found = "-"

\* the outbox as it would be had no tick ever marked a row
Unsent(tbl) == [ i \in DOMAIN tbl |-> [tbl[i] EXCEPT !.status = "new"] ]

\* a SaveUser call returns and stores what it would have with a Sender that
\* never ran: the same error and id, the same users, the same new row; it
\* writes nothing to the topic and touches neither the rows already in the
\* outbox nor the Sender's tick
C29_SaveUserStep ==
    SaveUserStep =>
        /\ \E now \in Timestamps(messages) :
              LET alone == SaveUser([users |-> users, messages |-> Unsent(messages)],
                                    lastSave'.email, now, lastSave'.fail)
              IN  /\ lastSave'.err = alone.err
                  /\ lastSave'.id = alone.id
                  /\ users' = alone.db.users
                  /\ Unsent(messages') = alone.db.messages
        /\ \A i \in DOMAIN messages : messages'[i] = messages[i]
        /\ topic' = topic
        /\ <<senderPc', senderEvent', lastTick'>> = <<senderPc, senderEvent, lastTick>>

\* a registration is accepted at every position of a tick, whatever the
\* broker does
C29_SaveUserNeverWaits == nCalls < MaxSaveCalls => ENABLED DoSaveUser

\* C29: the foreground mutation does not depend on the relay: the result of
\* SaveUser (success or error, and the stored user and event rows) is the
\* same whether the broker is reachable or not and whether Sender ticks
\* succeed or fail; SaveUser never publishes to or waits on the broker.
C29_SaveUserIndependentOfRelay == []C29_SaveUserNeverWaits /\ [][C29_SaveUserStep]_vars

\* two registrations were committed on a broker that refuses event 1, the
\* latest tick having failed at Send
C29_Witness ==
    /\ rejected = {1}
    /\ Len(saved) = 2
    /\ Len(messages) = 2
    /\ lastTick.send = "err"
    /\ topic = <<>>

\* C31: producer-side liveness: under fairness of Sender ticks, and with
\* Send and MarkEventAsDone each succeeding at some time when retried (the
\* broker refuses no event for ever and failures are transient), every
\* outbox event created with status new eventually reaches status sent.
C31_EveryEventEventuallySent ==
    \A id \in 1..MaxSaveCalls : (HasEvent(id) /\ rejected = {}) ~> IsSent(id)

\* both events are sent, one of them published twice because a
\* MarkEventAsDone had failed
C31_Witness ==
    /\ rejected = {}
    /\ IsSent(1)
    /\ IsSent(2)
    /\ Len(topic) = 3
    /\ lastTick.mark = "nil"

\* CommitMessages fails after ProcessEvent returned nil: the cycle ends, the
\* Getter is idle, and the projection of the message's id is still there
C32_CommitFailureStep ==
    (getterPc = "commit" /\ cycle'.commit = "err") =>
        /\ cycle.proc = "nil"
        /\ getterPc' = "idle"
        /\ getterMsg' = 0
        /\ projections' = projections
        /\ HasUser(projections', parseUserPayload(topic[getterMsg].value).UserID)

\* a message that was applied with success, delivered again in this state,
\* is applied as a no-op: ProcessEvent returns nil and the store stays as it
\* is, with one projection of the id
C32_RedeliveryIsNoOp ==
    \A o \in DOMAIN topic :
        outcome[o] = "nil" =>
            LET again == ProcessEvent(projections, topic[o].value, FALSE)
                id    == parseUserPayload(topic[o].value).UserID
            IN  /\ again.err = "nil"
                /\ again.store = projections
                /\ Cardinality({ i \in DOMAIN projections : projections[i].id = id }) = 1

\* C32: if CommitMessages fails after ProcessEvent succeeded, the Getter
\* returns to idle with the projection still applied, and the later
\* redelivery of that message is applied as a successful no-op: the
\* projection store is the same as if the commit had succeeded, with no
\* duplicate projection.
C32_CommitFailureKeepsProjection ==
    [][C32_CommitFailureStep]_vars /\ []C32_RedeliveryIsNoOp

\* the commit of message 1 failed after its projection was created, and the
\* next message carries the same payload
C32_Witness ==
    /\ cycle.commit = "err"
    /\ cycle.coff = 1
    /\ getterPc = "idle"
    /\ Len(topic) = 2
    /\ topic[2].value = topic[1].value
    /\ Len(projections) = 1

\* a step in which the Getter calls CommitMessages
CommitCallStep == getterPc = "commit" /\ cycle'.commit # "-"

\* the offset given to CommitMessages is above every offset this consumer
\* group has processed before
C33_CommitOffsetsIncrease ==
    CommitCallStep =>
        /\ cycle'.coff = getterMsg
        /\ \A o \in DOMAIN topic : o > getterMsg => outcome[o] = "none"

\* every message delivered before the one being committed was processed
\* with success
C33_EarlierAllProcessed ==
    CommitCallStep => \A o \in 1..(getterMsg - 1) : outcome[o] = "nil"

\* C33: per consumer, messages of one partition are processed and committed
\* one at a time in the order the broker delivers them: the offsets passed
\* to CommitMessages by one Getter are strictly increasing, and a message is
\* committed only after all earlier delivered messages of that partition
\* were processed successfully.
C33_CommittedInDeliveryOrder ==
    [][C33_CommitOffsetsIncrease /\ C33_EarlierAllProcessed]_vars

\* ------------------------------------------------------------------------
\* Two ProcessEvent calls at the same time on one users table: two Getter
\* instances, or one message delivered twice.  A call decodes its payload
\* and then runs the one INSERT of CreateUser, which the database executes
\* atomically
\* ------------------------------------------------------------------------

Workers == {"w1", "w2"}

\* what the two calls may be given: the same event twice, another event of
\* the same id, an event of another id, and bytes that do not decode
WorkerPayloads ==
    { MarshalEventPayload(1, <<"a">>), MarshalEventPayload(1, <<"b">>),
      MarshalEventPayload(2, <<"a">>), <<"x">> }

\* the users table before the calls: empty, or holding the projection of
\* user 1 as UpdateUser wrote it
WorkerStores == { <<>>, <<[id |-> 1, name |-> "Ann", surname |-> "Lee", avatar |-> <<1, 1>>]>> }

\* pc: "parse", "insert", "done"; id: the decoded UserID; err: what
\* ProcessEvent returned ("-": not yet)
ConcurrentInit ==
    /\ InitData
    /\ topic = <<>>
    /\ outcome = <<>>
    /\ rejected = {}
    /\ ssoProc = SsoStarted
    /\ \E store \in WorkerStores : projections = store
    /\ \E given \in [Workers -> WorkerPayloads] :
          usProc = [ w \in Workers |->
                       [pc |-> "parse", payload |-> given[w], id |-> 0, err |-> "-"] ]

workerFrame == <<ssoProc, rejected, ssoVars, senderVars, topic, committed, readerPos, getterVars>>

\* ProcessEvent: userPayload, err := parseUserPayload(payload)
WorkerParse(w) ==
    /\ usProc[w].pc = "parse"
    /\ LET userPayload == parseUserPayload(usProc[w].payload) IN
       usProc' = [usProc EXCEPT ![w] =
                     IF userPayload.err
                     THEN [@ EXCEPT !.pc = "done", !.err = "parse error"]
                     ELSE [@ EXCEPT !.pc = "insert", !.id = userPayload.UserID]]
    /\ UNCHANGED <<workerFrame, projections, faults>>

\* ProcessEvent: p.storage.CreateUser(ctx, user) and the result
WorkerCreateUser(w) ==
    /\ usProc[w].pc = "insert"
    /\ \E fail \in {FALSE} \cup (IF CanFail THEN {TRUE} ELSE {}) :
          LET r == CreateUser(projections, NewProjection(usProc[w].id), fail) IN
          /\ projections' = r.store
          /\ faults' = IF fail THEN faults + 1 ELSE faults
          /\ usProc' = [usProc EXCEPT ![w] =
                           [@ EXCEPT !.pc = "done", !.err = CreateUserResult(r.err)]]
    /\ UNCHANGED workerFrame

ConcurrentNext ==
    \/ \E w \in Workers : WorkerParse(w)
    \/ \E w \in Workers : WorkerCreateUser(w)

ConcurrentSpec == ConcurrentInit /\ [][ConcurrentNext]_vars

\* the users table holds no two projections of one id
C34_NoTwoProjections ==
    \A i, j \in DOMAIN projections : projections[i].id = projections[j].id => i = j

\* both calls are over, they were for the same id, and the database did not
\* fail: both returned nil and the id has exactly one projection
C34_BothSucceed ==
    (/\ \A w \in Workers : usProc[w].pc = "done" /\ usProc[w].err # "parse error"
     /\ usProc["w1"].id = usProc["w2"].id
     /\ faults = 0) =>
        /\ \A w \in Workers : usProc[w].err = "nil"
        /\ Cardinality({ i \in DOMAIN projections : projections[i].id = usProc["w1"].id }) = 1

\* C34: under any interleaving of two concurrent ProcessEvent calls for the
\* same identifier (two Getter instances, or a duplicate delivery), exactly
\* one projection for that identifier exists afterwards and both calls
\* return success; the projection store never holds two projections with
\* the same identifier.
C34_ConcurrentApplyOneProjection == C34_NoTwoProjections /\ C34_BothSucceed

\* two calls for user 1, given different payloads, are over on a table that
\* was empty
C34_Witness ==
    /\ \A w \in Workers : usProc[w].pc = "done" /\ usProc[w].err = "nil"
    /\ usProc["w1"].id = 1
    /\ usProc["w2"].id = 1
    /\ usProc["w1"].payload # usProc["w2"].payload
    /\ projections = <<NewProjection(1)>>
    /\ faults = 0

\* ------------------------------------------------------------------------
\* Cancelling the context of the Getter
\* ------------------------------------------------------------------------

\* what GetEventStart has returned ("-": it has not returned).  The loop
\* shape returns ctx.Err() from its ctx.Done() case; the interval shape
\* starts its goroutine and returns nil at once
GetEventStartResult(proc) ==
    IF proc.shape = "interval" THEN "nil"
    ELSE IF proc.loop = "done" THEN "ctx.Err()"
    ELSE "-"

\* ReadMessage(ctx) with ctx cancelled: reader.ReadMessage returns the
\* context's error, whether it was waiting or just called; processEvent
\* logs it and returns
CycleReadCancelled ==
    /\ usProc.calls > 0
    /\ usProc.ctx
    /\ getterPc = "idle"
    /\ cycle' = [NoCycle EXCEPT !.read = "err", !.prev = FailedBefore]
    /\ usProc' = ReturnFromCycle
    /\ UNCHANGED <<ssoProc, rejected, ssoVars, senderVars, topic, committed, readerPos,
                   getterPc, getterMsg, outcome, projections, faults>>

CancelNext ==
    \/ GetterSelect
    \/ GetterTickerFires
    \/ GetterIntervalSelect
    \/ GetterCancel
    \/ CycleRead
    \/ CycleReadCancelled
    \/ CycleProcess
    \/ CycleCommit

\* the goroutine of the loop is scheduled: a select that can proceed does,
\* and a call that was made returns (ProcessEvent returns: it is never
\* forever in progress)
CancelFairness ==
    /\ WF_vars(GetterSelect)
    /\ WF_vars(GetterIntervalSelect)
    /\ WF_vars(CycleRead)
    /\ WF_vars(CycleReadCancelled)
    /\ WF_vars(CycleCommit)
    /\ []<>(getterPc # "process")

CancelSpec == GetterLoopInit /\ [][CancelNext]_vars /\ CancelFairness

\* once the context is cancelled GetEventStart returns the context's error
C35_ReturnsCancellationError ==
    usProc.ctx ~> (GetEventStartResult(usProc) = "ctx.Err()")

\* a ReadMessage that returns an error after the cancellation ends the cycle:
\* nothing is processed and nothing is committed
C35_ReadErrorStep ==
    (usProc.ctx /\ getterPc = "idle" /\ usProc.calls = 1 /\ usProc'.calls = 0) =>
        /\ getterPc' = "idle"
        /\ cycle'.read = "err"
        /\ projections' = projections
        /\ committed' = committed
        /\ outcome' = outcome

\* a step in which ReadMessage hands out a message, ProcessEvent is called,
\* or CommitMessages is called
C35_RelayCall ==
    \/ getterPc = "idle" /\ getterPc' = "process"
    \/ getterPc = "process" /\ getterPc' # "process"
    \/ getterPc = "commit" /\ getterPc' # "commit"

C35_NothingAfterCancel == usProc.ctx => ~C35_RelayCall

\* C35: after the Getter's context is cancelled, GetEventStart eventually
\* returns the cancellation error: a blocked ReadMessage is interrupted, the
\* read error is skipped without processing or commit, and no further
\* message is read, processed or committed after cancellation.
C35_CancelStopsRelay ==
    /\ C35_ReturnsCancellationError
    /\ [][C35_ReadErrorStep]_vars
    /\ [][C35_NothingAfterCancel]_vars

\* what holds of the loop shape: cancellation leads to the return of the
\* context's error, and a failed read after it is skipped
C35_LoopShapeReturns ==
    /\ (usProc.shape = "loop" /\ usProc.ctx) ~> (usProc.loop = "done")
    /\ [][C35_ReadErrorStep]_vars

\* what holds of both shapes: once the loop has left through its ctx.Done()
\* case, nothing is read, processed or committed
C35_NothingAfterReturn == [][usProc.loop = "done" => ~C35_RelayCall]_vars

\* ------------------------------------------------------------------------
\* The outbox over time
\* ------------------------------------------------------------------------

\* every row of the outbox is still there after the step, with its id, type,
\* payload and creation time, and a row that was sent is still sent
C36_RowsKept ==
    /\ Len(messages') >= Len(messages)
    /\ \A i \in DOMAIN messages :
          /\ messages'[i] = [messages[i] EXCEPT !.status = messages'[i].status]
          /\ messages[i].status = "sent" => messages'[i].status = "sent"

C36_StatusNewOrSent == \A i \in DOMAIN messages : messages[i].status \in {"new", "sent"}

\* the update of MarkEventAsDone, for every id it may be given: the table
\* keeps its rows, rows of other ids are as they were, and with no row of
\* the id, or with that row sent already, the table is as it was
C36_MarkTouchesOneRow ==
    \A eventID \in 0..(MaxSaveCalls + 1) :
       LET after == MarkEventAsDone(messages, eventID) IN
       /\ Len(after) = Len(messages)
       /\ \A i \in DOMAIN messages :
             /\ messages[i].id # eventID => after[i] = messages[i]
             /\ messages[i].id = eventID => after[i] = [messages[i] EXCEPT !.status = "sent"]
       /\ (\A i \in DOMAIN messages : messages[i].id = eventID => messages[i].status = "sent")
             => after = messages

\* a MarkEventAsDone call of the Sender that meets no database error returns
\* nil and leaves every row but the one of its id unchanged
C36_MarkStep ==
    (senderPc = "mark" /\ senderPc' = "idle" /\ faults' = faults) =>
        /\ lastTick'.mark = "nil"
        /\ \A i \in DOMAIN messages :
              messages[i].id # senderEvent.ID => messages'[i] = messages[i]

\* C36: the outbox is monotone: across any sequence of SaveUser calls and
\* Sender ticks, no event row is ever deleted, no event's status ever
\* changes from sent back to new, every status is either new or sent, and
\* MarkEventAsDone(id) changes only the status of the row with that id (a
\* call with an id that has no row or whose row is already sent changes
\* nothing and returns success).
C36_OutboxMonotone ==
    /\ [][C36_RowsKept /\ C36_MarkStep]_vars
    /\ [](C36_StatusNewOrSent /\ C36_MarkTouchesOneRow)

\* event 1 was marked while event 2 waits, and the tick is over
C36_Witness ==
    /\ Len(messages) = 2
    /\ IsSent(1)
    /\ ~IsSent(2)
    /\ lastTick.mark = "nil"
    /\ senderPc = "idle"

\* ------------------------------------------------------------------------
\* Publishes of one event by the one Sender
\* ------------------------------------------------------------------------

\* the ids of the events in the outbox
EventIds == { messages[i].id : i \in DOMAIN messages }

\* the publishes of the event that no MarkEventAsDone has answered or is
\* about to answer: those of ticks whose Send succeeded and whose
\* MarkEventAsDone failed
FailedMarks(id) ==
    Cardinality(PublishedOf(id))
      - (IF IsSent(id) THEN 1 ELSE 0)
      - (IF senderPc = "mark" /\ senderEvent.ID = id THEN 1 ELSE 0)

\* a step in which Send succeeds
SendStep == senderPc = "send" /\ senderPc' = "mark"

\* a step in which MarkEventAsDone fails for this event
MarkFailsStep(id) ==
    senderPc = "mark" /\ senderEvent.ID = id /\ senderPc' = "idle" /\ lastTick'.mark = "err"

\* every Send is for an event whose row is new, and publishes it once
C37_SendWhileNew ==
    SendStep =>
        /\ senderEvent.ID \in EventIds
        /\ StatusOf(messages, senderEvent.ID) = "new"
        /\ Cardinality(PublishedOf(senderEvent.ID)') = Cardinality(PublishedOf(senderEvent.ID)) + 1

\* the publishes of an event whose row is sent do not change
C37_SentNotPublishedAgain ==
    \A id \in EventIds : IsSent(id) => PublishedOf(id)' = PublishedOf(id)

\* the count of failed marks grows by one in a step in which
\* MarkEventAsDone fails after a Send that succeeded, and in no other step
C37_CountsFailedMarks ==
    \A id \in EventIds :
        FailedMarks(id)' = FailedMarks(id) + (IF MarkFailsStep(id) THEN 1 ELSE 0)

\* an event that is sent was published once and once more for each tick in
\* which its Send succeeded and its MarkEventAsDone failed; an event never
\* published has no such tick
C37_DuplicatesAreFailedMarks ==
    \A id \in EventIds :
        /\ FailedMarks(id) >= 0
        /\ FailedMarks(id) <= faults
        /\ IsSent(id) => Cardinality(PublishedOf(id)) = 1 + FailedMarks(id)

\* C37: with a single Sender, an event whose status is sent is never
\* published again: every Send call for an event happens while that event's
\* status is new, so the number of duplicate publishes of an event equals
\* the number of ticks in which Send succeeded and MarkEventAsDone failed.
C37_DuplicatesOnlyFromFailedMarks ==
    /\ [][C37_SendWhileNew /\ C37_SentNotPublishedAgain /\ C37_CountsFailedMarks]_vars
    /\ []C37_DuplicatesAreFailedMarks

\* event 1 was published, its mark failed, it was published again and marked
C37_Witness ==
    /\ IsSent(1)
    /\ Cardinality(PublishedOf(1)) = 2
    /\ FailedMarks(1) = 1
    /\ senderPc = "idle"

\* ------------------------------------------------------------------------
\* The payload from SaveUser to parseUserPayload.  SaveUser builds it with
\* json.Marshal in one version of the storage and with fmt.Sprintf in the
\* other
\* ------------------------------------------------------------------------

MaxEmailLen == 2

MaxPayloadId == 12

\* the characters an email is made of here: a letter, the at sign, and the
\* two characters JSON escapes
EmailChars == {"a", "@", Quote, Backslash}

EmailStrings == UNION { [1..n -> EmailChars] : n \in 0..MaxEmailLen }

\* fmt.Sprintf(`{"id": %d, "email": "%s"}`, resID, email)
SprintfEventPayload(id, email) ==
    <<"{", Quote, "i", "d", Quote, ":", " ">> \o Itoa(id)
       \o <<",", " ", Quote, "e", "m", "a", "i", "l", Quote, ":", " ", Quote>>
       \o email \o <<Quote, "}">>

Encodings == {"json.Marshal", "fmt.Sprintf"}

\* the payload SaveUser hands to SaveEvent
EventPayloadOf(encoding, id, email) ==
    IF encoding = "json.Marshal" THEN MarshalEventPayload(id, email)
    ELSE SprintfEventPayload(id, email)

\* a SaveUser call about to build the payload for the id the insert
\* returned, and a ProcessEvent waiting for it
PayloadInit ==
    /\ InitData
    /\ topic = <<>>
    /\ outcome = <<>>
    /\ rejected = {}
    /\ \E encoding \in Encodings, id \in 1..MaxPayloadId, email \in EmailStrings :
          ssoProc = [pc |-> "insert", encoding |-> encoding, resID |-> id,
                     email |-> email, eventPayload |-> <<>>]
    /\ usProc = [pc |-> "wait", event |-> [err |-> FALSE, UserID |-> 0, Email |-> <<>>]]

\* SaveUser: eventPayload built from resID and email
PayloadSaveUser ==
    /\ ssoProc.pc = "insert"
    /\ ssoProc' = [ssoProc EXCEPT
                      !.pc = "saved",
                      !.eventPayload = EventPayloadOf(ssoProc.encoding, ssoProc.resID, ssoProc.email)]
    /\ UNCHANGED <<usProc, dataVars>>

\* ProcessEvent: parseUserPayload(payload)
PayloadParse ==
    /\ ssoProc.pc = "saved"
    /\ usProc.pc = "wait"
    /\ usProc' = [pc |-> "parsed", event |-> parseUserPayload(ssoProc.eventPayload)]
    /\ UNCHANGED <<ssoProc, dataVars>>

PayloadNext ==
    \/ PayloadSaveUser
    \/ PayloadParse

PayloadSpec == PayloadInit /\ [][PayloadNext]_vars

\* the payload was decoded without error into the id and the email SaveUser
\* was given
RoundTrips ==
    /\ ~usProc.event.err
    /\ usProc.event.UserID = ssoProc.resID
    /\ usProc.event.Email = ssoProc.email

\* C38: payload round trip: for every user id and every email accepted by
\* SaveUser, the payload that SaveUser writes to the outbox is decoded by
\* parseUserPayload without error into the same id and the same email.
C38_PayloadRoundTrip == usProc.pc = "parsed" => RoundTrips

\* what holds: the round trip of the payload json.Marshal builds
C38_MarshalRoundTrip ==
    (usProc.pc = "parsed" /\ ssoProc.encoding = "json.Marshal") => RoundTrips

\* what holds: the round trip of the payload fmt.Sprintf builds for an email
\* without quote and backslash
C38_SprintfPlainRoundTrip ==
    (/\ usProc.pc = "parsed"
     /\ ssoProc.encoding = "fmt.Sprintf"
     /\ \A i \in DOMAIN ssoProc.email : ssoProc.email[i] \notin {Quote, Backslash})
        => RoundTrips

\* the payload fmt.Sprintf builds decodes without error into another email
C38_SprintfOtherEmail ==
    /\ usProc.pc = "parsed"
    /\ ssoProc.encoding = "fmt.Sprintf"
    /\ ~usProc.event.err
    /\ usProc.event.Email # ssoProc.email

====
